---- MODULE Spec2Model ----
(***************************************************************************)
(* Verification model of reddit-time-warp's backend services:              *)
(*   - FileCache / TorrentDownloader (torrent_downloader.py): the content  *)
(*     cache with marker-file locking, run by cooperative asyncio tasks;   *)
(*   - CachedRedditWarper (cached_reddit_warper.py): the read-through      *)
(*     snapshot cache and availability-list cache;                         *)
(*   - read_and_decode / read_lines_zst (pushshift_dump_fetcher.py): the   *)
(*     chunked UTF-8 line decoder;                                         *)
(*   - PushshiftRedditWarper.get_subreddit (pushshift_reddit_warper.py):   *)
(*     the snapshot builder;                                               *)
(*   - SimpleSubredditSnapshot (subreddit_snapshot.py): the queries on a   *)
(*     snapshot;                                                           *)
(*   - PushshiftDumpFetcher.available_subreddits                           *)
(*     (pushshift_dump_fetcher.py): the enumeration of the dump files.     *)
(* Each component has its own specification; a specification leaves the    *)
(* variables of the other components at their initial values.              *)
(***************************************************************************)
EXTENDS Integers, Sequences, FiniteSets, TLC

(***************************************************************************)
(* Bounds of the model.                                                    *)
(***************************************************************************)
NumCallers == 2
MaxCalls == 3
MaxServed == 3
MaxCutoff == 1
MaxTextLen == 4
MaxChunkSize == 4
MaxDumpLen == 3
MaxSubmissions == 3
MaxNameLen == 2

VARIABLES
  \* ---- FileCache / TorrentDownloader ----
  metadata_cache,   \* keys present in FileCache._metadata_cache
  content_files,    \* paths of the files that exist under content/
  lock_files,       \* paths of the lock markers that exist
  pc,               \* per caller: the suspension point its download_file is at
  filename,         \* per caller: the filename argument of its download_file
  result,           \* per caller: the path download_file returned
  cache_hit,        \* per caller: its current call returned from the first cache.get
  retrievals,       \* per key: remote retrievals started for it
  started,          \* per file key: download_file calls begun
  returned,         \* per file key: download_file calls that returned a path
  failure,          \* per caller: what raised in its call, "" if nothing did
  \* ---- CachedRedditWarper ----
  subreddit_cache,       \* diskcache of pickled snapshots: key -> stored bytes
  subreddit_list_cache,  \* diskcache of the pickled availability list
  req,                   \* per request: the call in progress and its outcome
  served,                \* calls begun so far
  \* ---- read_lines_zst ----
  stream,           \* the decompressed bytes behind the zstd stream reader
  chunk_size,       \* read_lines_zst's chunk_size argument
  reader_pos,       \* bytes the stream reader has handed out
  buffer,           \* the carried-over partial line
  yielded,          \* the lines yielded so far
  dpc,              \* "reading", "closed" (loop left, reader closed) or "raised"
  \* ---- PushshiftRedditWarper.get_subreddit ----
  dump,               \* the parsed records fetch_subreddit_dump yields, in order
  build_subreddit_name,     \* get_subreddit's subreddit_name argument
  build_snapshot_datetime,  \* get_subreddit's snapshot_datetime argument (epoch seconds)
  consumed,           \* records the async for loop has taken from the dump
  submissions_list,   \* the Submission objects appended so far
  bpc,                \* "iterating", "returned" or "raised"
  \* ---- SimpleSubredditSnapshot ----
  submissions,      \* self.submissions: the snapshot's records, in insertion order
  query,            \* the last query made on the snapshot: method and arguments
  answer,           \* the list that query returned
  \* ---- PushshiftDumpFetcher.available_subreddits ----
  torrent_files,    \* what list_files returns: the (path, size) of each file
  listed,           \* the (name, size) list available_subreddits returned
  lpc,              \* "idle" or "returned"
  \* ---- read_and_decode, call by call ----
  window_max,         \* the max_window_size argument
  window_chunk,       \* chunk: the bytes read and not decoded so far
  window_bytes_read,  \* bytes_read after the last reader.read
  wpc                 \* "calling", "returned" or "raised"

fetch_vars == <<metadata_cache, content_files, lock_files, pc, filename, result,
                cache_hit, retrievals, started, returned, failure>>

warper_vars == <<subreddit_cache, subreddit_list_cache, req, served>>

decoder_vars == <<stream, chunk_size, reader_pos, buffer, yielded, dpc>>

build_vars == <<dump, build_subreddit_name, build_snapshot_datetime, consumed, submissions_list, bpc>>

query_vars == <<submissions, query, answer>>

list_vars == <<torrent_files, listed, lpc>>

window_vars == <<window_max, window_chunk, window_bytes_read, wpc>>

vars == <<fetch_vars, warper_vars, decoder_vars, build_vars, query_vars, list_vars,
          window_vars>>

\* What the actions of one component leave alone: the other components.
fetch_frame == <<warper_vars, decoder_vars, build_vars, query_vars, list_vars, window_vars>>
warper_frame == <<fetch_vars, decoder_vars, build_vars, query_vars, list_vars, window_vars>>
decoder_frame == <<fetch_vars, warper_vars, build_vars, query_vars, list_vars, window_vars>>
build_frame == <<fetch_vars, warper_vars, decoder_vars, query_vars, list_vars, window_vars>>
query_frame == <<fetch_vars, warper_vars, decoder_vars, build_vars, list_vars, window_vars>>
list_frame == <<fetch_vars, warper_vars, decoder_vars, build_vars, query_vars, window_vars>>
window_frame == <<fetch_vars, warper_vars, build_vars, query_vars, list_vars>>

(***************************************************************************)
(* FileCache (torrent_downloader.py)                                       *)
(***************************************************************************)
Callers == 1..NumCallers
Filenames == {"f1", "f2"}
\* Python's None where a path (str) is expected; both are falsy.
None == ""

\* TorrentDownloader.torrent_url: the logical key of the swarm descriptor.
torrent_url == "torrent_url"

\* cache_key = self.torrent_url + ":" + str(filename)
CacheKey(f) == torrent_url \o ":" \o f

FileKeys == {CacheKey(f) : f \in Filenames}
Keys == {torrent_url} \cup FileKeys

\* hashlib.sha256(key.encode()).hexdigest(), taken as collision free.
sha256(data) == "sha256(" \o data \o ")"

\* FileCache._get_cache_path
get_cache_path(key) == "content/" \o sha256(key)

\* One marker path for every key: the path of the torrent key's marker.
get_lock_path_shared(key) == get_cache_path(torrent_url) \o ".lock"

\* FileCache._get_lock_path
get_lock_path(key) == get_cache_path(key) \o ".lock"

\* A lookup of the metadata cache by the hashed path instead of the key: no hit.
FileCache_get_by_path(key) ==
  IF get_cache_path(key) \notin metadata_cache THEN None ELSE get_cache_path(key)

\* FileCache.get
FileCache_get(key) ==
  IF key \notin metadata_cache THEN None ELSE get_cache_path(key)

\* A poll that looks for the marker at the content path, where none is written.
is_locked_content_path(key, locks) == get_cache_path(key) \in locks

\* FileCache.is_locked, evaluated against the marker files in `locks`
is_locked(key, locks) == get_lock_path(key) \in locks

\* An unlock_file that leaves the marker where it is.
unlock_file_kept(key, locks) == locks

\* FileCache.unlock_file: the marker files left after it ran on `locks`
unlock_file(key, locks) ==
  IF get_lock_path(key) \in locks THEN locks \ {get_lock_path(key)} ELSE locks

\* FileCache.lock_file, from the poll of is_locked to the creation of the marker
\* (no await lies between the two). While the marker exists the caller sleeps
\* at `waiting`; otherwise it creates the marker and runs on to `holding`.
lock_file(c, key, locks, waiting, holding) ==
  IF is_locked(key, locks)
    THEN /\ pc' = [pc EXCEPT ![c] = waiting]
         /\ lock_files' = locks
    ELSE /\ pc' = [pc EXCEPT ![c] = holding]
         /\ lock_files' = locks \cup {get_lock_path(key)}

\* FileCache.set: the metadata entry is written first, then the file is copied;
\* copied = FALSE is shutil.copy2 raising.
FileCache_set(key, copied) ==
  /\ metadata_cache' = metadata_cache \cup {key}
  /\ content_files' = IF copied THEN content_files \cup {get_cache_path(key)}
                                ELSE content_files

Bump(f, k) == [f EXCEPT ![k] = @ + 1]

TotalStarted == started[CacheKey("f1")] + started[CacheKey("f2")]

(***************************************************************************)
(* TorrentDownloader.download_file, one action per run between two         *)
(* suspension points of the asyncio task.                                  *)
(***************************************************************************)

\* download_file from its call to its first suspension: cache.get(cache_key);
\* on a miss _download_torrent_file's cache.get(torrent_url), then lock_file of
\* the torrent key (miss) or of the file key (hit).
download_file(c, f) ==
  /\ UNCHANGED fetch_frame
  /\ pc[c] = "idle"
  /\ TotalStarted < MaxCalls
  /\ filename' = [filename EXCEPT ![c] = f]
  /\ started' = Bump(started, CacheKey(f))
  /\ UNCHANGED <<metadata_cache, content_files, failure>>
  /\ IF FileCache_get(CacheKey(f)) # None
       THEN /\ pc' = [pc EXCEPT ![c] = "done"]
            /\ result' = [result EXCEPT ![c] = FileCache_get(CacheKey(f))]
            /\ cache_hit' = [cache_hit EXCEPT ![c] = TRUE]
            /\ returned' = Bump(returned, CacheKey(f))
            /\ UNCHANGED <<lock_files, retrievals>>
       ELSE /\ cache_hit' = [cache_hit EXCEPT ![c] = FALSE]
            /\ UNCHANGED <<result, returned>>
            /\ IF FileCache_get(torrent_url) # None
                 THEN /\ lock_file(c, CacheKey(f), lock_files, "lock_file", "torrent_init")
                      /\ UNCHANGED retrievals
                 ELSE /\ lock_file(c, torrent_url, lock_files, "lock_torrent", "get_torrent")
                      /\ retrievals' = IF is_locked(torrent_url, lock_files)
                                         THEN retrievals
                                         ELSE Bump(retrievals, torrent_url)

\* lock_file(torrent_url) waking from asyncio.sleep with the marker gone:
\* the marker is created and the HTTP download of the torrent file starts.
lock_torrent_wake(c) ==
  /\ UNCHANGED fetch_frame
  /\ pc[c] = "lock_torrent"
  /\ ~is_locked(torrent_url, lock_files)
  /\ lock_file(c, torrent_url, lock_files, "lock_torrent", "get_torrent")
  /\ retrievals' = Bump(retrievals, torrent_url)
  /\ UNCHANGED <<metadata_cache, content_files, filename, result, cache_hit,
                 started, returned, failure>>

\* A download_file that asks for the file key's marker inside the
\* lock_context of the torrent key, the torrent key's marker still in place.
download_torrent_file_done_nested(c, http_ok, copied) ==
  /\ UNCHANGED fetch_frame
  /\ pc[c] = "get_torrent"
  /\ UNCHANGED <<filename, result, cache_hit, retrievals, started, returned>>
  /\ IF http_ok
       THEN /\ FileCache_set(torrent_url, copied)
            /\ IF copied
                 THEN /\ lock_file(c, CacheKey(filename[c]), lock_files,
                                   "lock_file", "torrent_init")
                      /\ UNCHANGED failure
                 ELSE /\ pc' = [pc EXCEPT ![c] = "raised"]
                      /\ failure' = [failure EXCEPT ![c] = "cache.set"]
                      /\ lock_files' = unlock_file(torrent_url, lock_files)
       ELSE /\ copied
            /\ pc' = [pc EXCEPT ![c] = "raised"]
            /\ failure' = [failure EXCEPT ![c] = "retrieval"]
            /\ lock_files' = unlock_file(torrent_url, lock_files)
            /\ UNCHANGED <<metadata_cache, content_files>>

\* _download_torrent_file: the HTTP download ends. ok: cache.set, the lock_context
\* exits (unlock_file) and download_file runs on into lock_file(cache_key).
\* Not ok (HTTP error, timeout, or the copy in cache.set raising): the exception
\* leaves lock_context (unlock_file) and download_file.
download_torrent_file_done(c, http_ok, copied) ==
  /\ UNCHANGED fetch_frame
  /\ pc[c] = "get_torrent"
  /\ UNCHANGED <<filename, result, cache_hit, retrievals, started, returned>>
  /\ IF http_ok
       THEN /\ FileCache_set(torrent_url, copied)
            /\ IF copied
                 THEN /\ lock_file(c, CacheKey(filename[c]),
                                   unlock_file(torrent_url, lock_files),
                                   "lock_file", "torrent_init")
                      /\ UNCHANGED failure
                 ELSE /\ pc' = [pc EXCEPT ![c] = "raised"]
                      /\ failure' = [failure EXCEPT ![c] = "cache.set"]
                      /\ lock_files' = unlock_file(torrent_url, lock_files)
       ELSE /\ copied
            /\ pc' = [pc EXCEPT ![c] = "raised"]
            /\ failure' = [failure EXCEPT ![c] = "retrieval"]
            /\ lock_files' = unlock_file(torrent_url, lock_files)
            /\ UNCHANGED <<metadata_cache, content_files>>

\* A lock_file that gives up waiting and takes the marker although it exists.
lock_file_wake_timeout(c) ==
  /\ UNCHANGED fetch_frame
  /\ pc[c] = "lock_file"
  /\ pc' = [pc EXCEPT ![c] = "torrent_init"]
  /\ lock_files' = lock_files \cup {get_lock_path(CacheKey(filename[c]))}
  /\ UNCHANGED <<metadata_cache, content_files, filename, result, cache_hit,
                 retrievals, started, returned, failure>>

\* lock_file(cache_key) waking from asyncio.sleep with the marker gone.
lock_file_wake(c) ==
  /\ UNCHANGED fetch_frame
  /\ pc[c] = "lock_file"
  /\ ~is_locked(CacheKey(filename[c]), lock_files)
  /\ lock_file(c, CacheKey(filename[c]), lock_files, "lock_file", "torrent_init")
  /\ UNCHANGED <<metadata_cache, content_files, filename, result, cache_hit,
                 retrievals, started, returned, failure>>

\* torrent.init() ends. found: the file is in the torrent and torrent.download
\* starts (the remote retrieval). Otherwise init raised or FileNotFoundError.
torrent_init_done(c, found) ==
  /\ UNCHANGED fetch_frame
  /\ pc[c] = "torrent_init"
  /\ UNCHANGED <<metadata_cache, content_files, filename, result, cache_hit,
                 started, returned>>
  /\ IF found
       THEN /\ pc' = [pc EXCEPT ![c] = "torrent_download"]
            /\ retrievals' = Bump(retrievals, CacheKey(filename[c]))
            /\ UNCHANGED <<lock_files, failure>>
       ELSE /\ pc' = [pc EXCEPT ![c] = "raised"]
            /\ failure' = [failure EXCEPT ![c] = "retrieval"]
            /\ lock_files' = unlock_file(CacheKey(filename[c]), lock_files)
            /\ UNCHANGED retrievals

\* A lock_context without its finally clause: the marker is removed when
\* the body ends well and left in place when an exception leaves it.
torrent_download_done_no_finally(c, ok, copied) ==
  /\ UNCHANGED fetch_frame
  /\ pc[c] = "torrent_download"
  /\ UNCHANGED <<filename, cache_hit, retrievals, started>>
  /\ IF ok
       THEN /\ FileCache_set(CacheKey(filename[c]), copied)
            /\ IF copied
                 THEN /\ pc' = [pc EXCEPT ![c] = "done"]
                      /\ result' = [result EXCEPT ![c] = get_cache_path(CacheKey(filename[c]))]
                      /\ returned' = Bump(returned, CacheKey(filename[c]))
                      /\ lock_files' = unlock_file(CacheKey(filename[c]), lock_files)
                      /\ UNCHANGED failure
                 ELSE /\ pc' = [pc EXCEPT ![c] = "raised"]
                      /\ failure' = [failure EXCEPT ![c] = "cache.set"]
                      /\ UNCHANGED <<result, returned, lock_files>>
       ELSE /\ copied
            /\ pc' = [pc EXCEPT ![c] = "raised"]
            /\ failure' = [failure EXCEPT ![c] = "retrieval"]
            /\ UNCHANGED <<metadata_cache, content_files, result, returned,
                           lock_files>>

\* torrent.download() ends. ok: cache.set, return cache_path through the exit
\* of lock_context. Not ok (download raised, file missing, or the copy in
\* cache.set raising): the exception leaves lock_context.
torrent_download_done(c, ok, copied) ==
  /\ UNCHANGED fetch_frame
  /\ pc[c] = "torrent_download"
  /\ lock_files' = unlock_file(CacheKey(filename[c]), lock_files)
  /\ UNCHANGED <<filename, cache_hit, retrievals, started>>
  /\ IF ok
       THEN /\ FileCache_set(CacheKey(filename[c]), copied)
            /\ IF copied
                 THEN /\ pc' = [pc EXCEPT ![c] = "done"]
                      /\ result' = [result EXCEPT ![c] = get_cache_path(CacheKey(filename[c]))]
                      /\ returned' = Bump(returned, CacheKey(filename[c]))
                      /\ UNCHANGED failure
                 ELSE /\ pc' = [pc EXCEPT ![c] = "raised"]
                      /\ failure' = [failure EXCEPT ![c] = "cache.set"]
                      /\ UNCHANGED <<result, returned>>
       ELSE /\ copied
            /\ pc' = [pc EXCEPT ![c] = "raised"]
            /\ failure' = [failure EXCEPT ![c] = "retrieval"]
            /\ UNCHANGED <<metadata_cache, content_files, result, returned>>

\* The caller has its path or its exception and is free for another call;
\* the variables of the finished call are back at their initial values.
caller_finished(c) ==
  /\ UNCHANGED fetch_frame
  /\ pc[c] \in {"done", "raised"}
  /\ pc' = [pc EXCEPT ![c] = "idle"]
  /\ result' = [result EXCEPT ![c] = None]
  /\ cache_hit' = [cache_hit EXCEPT ![c] = FALSE]
  /\ failure' = [failure EXCEPT ![c] = ""]
  /\ filename' = [filename EXCEPT ![c] = "f1"]
  /\ UNCHANGED <<metadata_cache, content_files, lock_files, retrievals,
                 started, returned>>

\* The task of a caller is cancelled while it sleeps in lock_file:
\* CancelledError comes out of asyncio.sleep and of lock_file, and
\* lock_context's finally clause runs unlock_file(key), which removes the
\* key's marker if one exists, whoever created it.
lock_file_cancelled(c) ==
  /\ UNCHANGED fetch_frame
  /\ pc[c] \in {"lock_torrent", "lock_file"}
  /\ lock_files' = unlock_file(IF pc[c] = "lock_torrent" THEN torrent_url
                                ELSE CacheKey(filename[c]),
                               lock_files)
  /\ pc' = [pc EXCEPT ![c] = "raised"]
  /\ failure' = [failure EXCEPT ![c] = "cancelled"]
  /\ UNCHANGED <<metadata_cache, content_files, filename, result, cache_hit,
                 retrievals, started, returned>>

\* The process is killed while a caller is inside a populate section: no
\* finally clause runs, so the marker files stay on disk with the cache, and
\* the callers of the restarted process begin anew. One kill is followed per
\* behaviour: it happens while every marker has its populator.
process_killed ==
  /\ UNCHANGED fetch_frame
  /\ \E c \in Callers : pc[c] \in {"get_torrent", "torrent_init", "torrent_download"}
  /\ \A k \in Keys :
       is_locked(k, lock_files) =>
         \E c \in Callers :
           \/ pc[c] = "get_torrent" /\ k = torrent_url
           \/ pc[c] \in {"torrent_init", "torrent_download"}
                /\ k = CacheKey(filename[c])
  /\ pc' = [c \in Callers |-> "idle"]
  /\ filename' = [c \in Callers |-> "f1"]
  /\ result' = [c \in Callers |-> None]
  /\ cache_hit' = [c \in Callers |-> FALSE]
  /\ failure' = [c \in Callers |-> ""]
  /\ UNCHANGED <<metadata_cache, content_files, lock_files, retrievals,
                 started, returned>>

FetchInit ==
  /\ metadata_cache = {}
  /\ content_files = {}
  /\ lock_files = {}
  /\ pc = [c \in Callers |-> "idle"]
  /\ filename = [c \in Callers |-> "f1"]
  /\ result = [c \in Callers |-> None]
  /\ cache_hit = [c \in Callers |-> FALSE]
  /\ retrievals = [k \in Keys |-> 0]
  /\ started = [k \in FileKeys |-> 0]
  /\ returned = [k \in FileKeys |-> 0]
  /\ failure = [c \in Callers |-> ""]

FetchNext ==
  \/ \E c \in Callers, f \in Filenames : download_file(c, f)
  \/ \E c \in Callers : lock_torrent_wake(c)
  \/ \E c \in Callers, http_ok \in BOOLEAN, copied \in BOOLEAN :
       download_torrent_file_done(c, http_ok, copied)
  \/ \E c \in Callers : lock_file_wake(c)
  \/ \E c \in Callers, found \in BOOLEAN : torrent_init_done(c, found)
  \/ \E c \in Callers, ok \in BOOLEAN, copied \in BOOLEAN :
       torrent_download_done(c, ok, copied)
  \/ \E c \in Callers : caller_finished(c)


(***************************************************************************)
(* CachedRedditWarper (cached_reddit_warper.py)                            *)
(***************************************************************************)
\* Two calls may be in progress at a time, each awaiting the inner warper.
Requests == {"r1", "r2"}

\* Subreddit names a caller may pass; one holds the separator of the key data.
SubredditNames == {"a", "a:1970"}

\* Snapshot instants, as seconds after the epoch.
Cutoffs == 0..MaxCutoff

\* datetime.isoformat() of datetime.fromtimestamp(t, UTC), for 0 <= t < 10
isoformat(t) == "1970-01-01T00:00:0" \o ToString(t) \o "+00:00"

\* A key that leaves the snapshot instant out of the hashed data.
make_cache_key_name_only(subreddit_name, snapshot_datetime) ==
  sha256(subreddit_name)

\* CachedRedditWarper._make_cache_key
make_cache_key(subreddit_name, snapshot_datetime) ==
  sha256(subreddit_name \o ":" \o isoformat(snapshot_datetime))

\* The snapshot inner_warper.get_subreddit returns for its two arguments
\* (SimpleSubredditSnapshot keeps both; the records are modelled further down).
Snapshot(subreddit_name, snapshot_datetime) ==
  [subreddit_name |-> subreddit_name, snapshot_datetime |-> snapshot_datetime]

NoSnapshot == [subreddit_name |-> "", snapshot_datetime |-> 0 - 1]

\* The list inner_warper.available_subreddits returns.
InnerSubreddits == <<"a", "b">>

\* pickle.dumps(obj): bytes that pickle.loads turns back into obj.
pickle_dumps(snapshot, subreddits) ==
  [loadable |-> TRUE, snapshot |-> snapshot, subreddits |-> subreddits]

\* Stored bytes damaged on disk: pickle.loads raises on them.
Corrupted(bytes) == [bytes EXCEPT !.loadable = FALSE]

\* diskcache.Cache.get(key, default=None): the entry or None
cache_get(cache, key) == IF key \in DOMAIN cache THEN <<cache[key]>> ELSE <<>>

\* diskcache.Cache.set(key, value)
cache_set(cache, key, value) ==
  [k \in DOMAIN cache \cup {key} |-> IF k = key THEN value ELSE cache[k]]

\* A removal that leaves the entry in place.
cache_pop_kept(cache, key) == cache

\* diskcache.Cache.pop(key, None)
cache_pop(cache, key) == [k \in DOMAIN cache \ {key} |-> cache[k]]

ListKey == "available_subreddits"

IdleRequest ==
  [pc |-> "idle", op |-> "", subreddit_name |-> "", snapshot_datetime |-> 0,
   corrupt |-> FALSE, snapshot |-> NoSnapshot, subreddits |-> <<>>,
   error |-> "", built |-> FALSE, stored |-> FALSE]

\* CachedRedditWarper.get_subreddit up to its await of the inner warper:
\* the cache lookup, the unpickling of a hit (return), the removal of an entry
\* that fails to unpickle, and the call of inner_warper.get_subreddit.
get_subreddit(r, subreddit_name, snapshot_datetime) ==
  LET cache_key == make_cache_key(subreddit_name, snapshot_datetime)
      cached == cache_get(subreddit_cache, cache_key)
      call == [IdleRequest EXCEPT !.op = "get_subreddit",
                                  !.subreddit_name = subreddit_name,
                                  !.snapshot_datetime = snapshot_datetime]
  IN /\ UNCHANGED warper_frame
     /\ req[r].pc = "idle"
     /\ served < MaxServed
     /\ served' = served + 1
     /\ UNCHANGED subreddit_list_cache
     /\ IF cached # <<>> /\ cached[1].loadable
          THEN /\ req' = [req EXCEPT ![r] = [call EXCEPT !.pc = "returned",
                                                         !.snapshot = cached[1].snapshot]]
               /\ UNCHANGED subreddit_cache
          ELSE /\ req' = [req EXCEPT ![r] = [call EXCEPT !.pc = "await_inner",
                                                         !.corrupt = (cached # <<>>)]]
               /\ subreddit_cache' = IF cached # <<>>
                                       THEN cache_pop(subreddit_cache, cache_key)
                                       ELSE subreddit_cache

\* A get_subreddit in which the exception of the store leaves the method.
get_subreddit_built_store_raises(r, inner_ok, store_ok) ==
  LET cache_key == make_cache_key(req[r].subreddit_name, req[r].snapshot_datetime)
      snapshot == Snapshot(req[r].subreddit_name, req[r].snapshot_datetime)
  IN /\ UNCHANGED warper_frame
     /\ req[r].pc = "await_inner"
     /\ req[r].op = "get_subreddit"
     /\ UNCHANGED <<subreddit_list_cache, served>>
     /\ IF inner_ok /\ store_ok
          THEN /\ req' = [req EXCEPT ![r].pc = "returned",
                                     ![r].snapshot = snapshot,
                                     ![r].built = TRUE,
                                     ![r].stored = TRUE]
               /\ subreddit_cache' = cache_set(subreddit_cache, cache_key,
                                               pickle_dumps(snapshot, <<>>))
          ELSE /\ req' = [req EXCEPT ![r].pc = "raised",
                                     ![r].built = inner_ok,
                                     ![r].error = IF inner_ok THEN "store" ELSE "inner"]
               /\ UNCHANGED subreddit_cache

\* inner_warper.get_subreddit ends. inner_ok: it returned a snapshot, which is
\* pickled and stored (store_ok) or, the store raising, only logged; the
\* snapshot is returned. Otherwise the inner warper's exception leaves
\* get_subreddit.
get_subreddit_built(r, inner_ok, store_ok) ==
  LET subreddit_name == req[r].subreddit_name
      snapshot_datetime == req[r].snapshot_datetime
      cache_key == make_cache_key(subreddit_name, snapshot_datetime)
      snapshot == Snapshot(subreddit_name, snapshot_datetime)
  IN /\ UNCHANGED warper_frame
     /\ req[r].pc = "await_inner"
     /\ req[r].op = "get_subreddit"
     /\ UNCHANGED <<subreddit_list_cache, served>>
     /\ IF inner_ok
          THEN /\ req' = [req EXCEPT ![r].pc = "returned",
                                     ![r].snapshot = snapshot,
                                     ![r].built = TRUE,
                                     ![r].stored = store_ok]
               /\ subreddit_cache' =
                    IF store_ok
                      THEN cache_set(subreddit_cache, cache_key,
                                     pickle_dumps(snapshot, <<>>))
                      ELSE subreddit_cache
          ELSE /\ store_ok
               /\ req' = [req EXCEPT ![r].pc = "raised", ![r].error = "inner"]
               /\ UNCHANGED subreddit_cache

\* CachedRedditWarper.available_subreddits up to its await of the inner warper:
\* a stored entry is unpickled and returned, with no handler around the
\* unpickling; on a miss inner_warper.available_subreddits is called.
available_subreddits(r) ==
  LET cached == cache_get(subreddit_list_cache, ListKey)
      call == [IdleRequest EXCEPT !.op = "available_subreddits"]
  IN /\ UNCHANGED warper_frame
     /\ req[r].pc = "idle"
     /\ served < MaxServed
     /\ served' = served + 1
     /\ UNCHANGED <<subreddit_cache, subreddit_list_cache>>
     /\ IF cached # <<>>
          THEN IF cached[1].loadable
                 THEN req' = [req EXCEPT ![r] = [call EXCEPT !.pc = "returned",
                                                             !.subreddits = cached[1].subreddits]]
                 ELSE req' = [req EXCEPT ![r] = [call EXCEPT !.pc = "raised",
                                                             !.corrupt = TRUE,
                                                             !.error = "unpickle"]]
          ELSE req' = [req EXCEPT ![r] = [call EXCEPT !.pc = "await_inner"]]

\* inner_warper.available_subreddits ends; the list is stored best-effort.
available_subreddits_built(r, inner_ok, store_ok) ==
  /\ UNCHANGED warper_frame
  /\ req[r].pc = "await_inner"
  /\ req[r].op = "available_subreddits"
  /\ UNCHANGED <<subreddit_cache, served>>
  /\ IF inner_ok
       THEN /\ req' = [req EXCEPT ![r].pc = "returned",
                                  ![r].subreddits = InnerSubreddits,
                                  ![r].built = TRUE,
                                  ![r].stored = store_ok]
            /\ subreddit_list_cache' =
                 IF store_ok
                   THEN cache_set(subreddit_list_cache, ListKey,
                                  pickle_dumps(NoSnapshot, InnerSubreddits))
                   ELSE subreddit_list_cache
       ELSE /\ store_ok
            /\ req' = [req EXCEPT ![r].pc = "raised", ![r].error = "inner"]
            /\ UNCHANGED subreddit_list_cache

\* The caller has its answer or its exception; the slot serves the next call.
request_finished(r) ==
  /\ UNCHANGED warper_frame
  /\ req[r].pc \in {"returned", "raised"}
  /\ req' = [req EXCEPT ![r] = IdleRequest]
  /\ UNCHANGED <<subreddit_cache, subreddit_list_cache, served>>

\* The environment damages a stored snapshot entry on disk.
corrupt_snapshot_entry(key) ==
  /\ UNCHANGED warper_frame
  /\ key \in DOMAIN subreddit_cache
  /\ subreddit_cache[key].loadable
  /\ subreddit_cache' = [subreddit_cache EXCEPT ![key] = Corrupted(@)]
  /\ UNCHANGED <<subreddit_list_cache, req, served>>

\* The environment damages the stored availability list on disk.
corrupt_list_entry ==
  /\ UNCHANGED warper_frame
  /\ ListKey \in DOMAIN subreddit_list_cache
  /\ subreddit_list_cache[ListKey].loadable
  /\ subreddit_list_cache' = [subreddit_list_cache EXCEPT ![ListKey] = Corrupted(@)]
  /\ UNCHANGED <<subreddit_cache, req, served>>

WarperInit ==
  /\ subreddit_cache = <<>>
  /\ subreddit_list_cache = <<>>
  /\ req = [r \in Requests |-> IdleRequest]
  /\ served = 0

WarperNext ==
  \/ \E r \in Requests, n \in SubredditNames, t \in Cutoffs : get_subreddit(r, n, t)
  \/ \E r \in Requests, inner_ok \in BOOLEAN, store_ok \in BOOLEAN :
       get_subreddit_built(r, inner_ok, store_ok)
  \/ \E r \in Requests : available_subreddits(r)
  \/ \E r \in Requests, inner_ok \in BOOLEAN, store_ok \in BOOLEAN :
       available_subreddits_built(r, inner_ok, store_ok)
  \/ \E r \in Requests : request_finished(r)
  \/ \E n \in SubredditNames, t \in Cutoffs :
       corrupt_snapshot_entry(make_cache_key(n, t))
  \/ corrupt_list_entry


(***************************************************************************)
(* read_and_decode / read_lines_zst (pushshift_dump_fetcher.py)            *)
(* Bytes are numbers 0..255, text is a sequence of code points.            *)
(***************************************************************************)
LF == 10

\* The characters of the modelled dumps: "a", "\n", U+00E9 (two bytes in
\* UTF-8) and U+20AC (three bytes).
Alphabet == {97, LF, 233, 8364}

\* str.encode() of one code point below U+10000
utf8_encode_char(cp) ==
  IF cp < 128 THEN <<cp>>
  ELSE IF cp < 2048 THEN <<192 + (cp \div 64), 128 + (cp % 64)>>
  ELSE <<224 + (cp \div 4096), 128 + ((cp \div 64) % 64), 128 + (cp % 64)>>

RECURSIVE utf8_encode(_)
utf8_encode(text) ==
  IF text = <<>> THEN <<>>
  ELSE utf8_encode_char(Head(text)) \o utf8_encode(Tail(text))

IsContinuation(b) == 128 <= b /\ b <= 191

\* bytes.decode() (strict UTF-8) of sequences of up to three bytes per
\* character: ok = FALSE is UnicodeDecodeError.
RECURSIVE utf8_decode(_)
utf8_decode(bytes) ==
  IF bytes = <<>> THEN [ok |-> TRUE, text |-> <<>>]
  ELSE LET b == bytes[1]
           width == IF b < 128 THEN 1
                    ELSE IF 194 <= b /\ b <= 223 THEN 2
                    ELSE IF 224 <= b /\ b <= 239 THEN 3
                    ELSE 0
           complete == /\ width > 0
                       /\ Len(bytes) >= width
                       /\ \A i \in 2..width : IsContinuation(bytes[i])
           cp == IF width = 1 THEN b
                 ELSE IF width = 2 THEN (b - 192) * 64 + (bytes[2] - 128)
                 ELSE (b - 224) * 4096 + (bytes[2] - 128) * 64 + (bytes[3] - 128)
           rest == IF complete
                     THEN utf8_decode(SubSeq(bytes, width + 1, Len(bytes)))
                     ELSE [ok |-> FALSE, text |-> <<>>]
       IN IF complete /\ rest.ok
            THEN [ok |-> TRUE, text |-> <<cp>> \o rest.text]
            ELSE [ok |-> FALSE, text |-> <<>>]

\* reader.read(n) at position pos: up to n bytes, none at the end of the stream
reader_read(bytes, pos, n) ==
  SubSeq(bytes, pos + 1, IF pos + n < Len(bytes) THEN pos + n ELSE Len(bytes))

\* max_window_size as read_lines_zst passes it: (2**29) * 2
MaxWindowSize == 1073741824

\* A test that already fails the window when bytes_read has reached it.
window_exceeded_at(bytes_read, max_window_size) == bytes_read >= max_window_size

\* bytes_read > max_window_size
window_exceeded(bytes_read, max_window_size) == bytes_read > max_window_size

\* A retry that decodes the new chunk alone, the undecoded bytes left out.
RECURSIVE read_and_decode_forgetful(_, _, _, _, _, _)
read_and_decode_forgetful(bytes, pos, size, max_window_size, previous_chunk, bytes_read) ==
  LET chunk == reader_read(bytes, pos, size)
      decoded == utf8_decode(chunk)
  IN IF decoded.ok
       THEN [raised |-> FALSE, text |-> decoded.text, pos |-> pos + Len(chunk)]
       ELSE IF bytes_read + size > max_window_size
         THEN [raised |-> TRUE, text |-> <<>>, pos |-> pos + Len(chunk)]
         ELSE read_and_decode_forgetful(bytes, pos + Len(chunk), size,
                                        max_window_size, chunk, bytes_read + size)

\* read_and_decode: the decoded text and the reader's new position, or
\* raised = TRUE for UnicodeError. previous_chunk = <<>> stands for None.
RECURSIVE read_and_decode(_, _, _, _, _, _)
read_and_decode(bytes, pos, size, max_window_size, previous_chunk, bytes_read) ==
  LET read == reader_read(bytes, pos, size)
      chunk == previous_chunk \o read
      decoded == utf8_decode(chunk)
  IN IF decoded.ok
       THEN [raised |-> FALSE, text |-> decoded.text, pos |-> pos + Len(read)]
       ELSE IF window_exceeded(bytes_read + size, max_window_size)
         THEN [raised |-> TRUE, text |-> <<>>, pos |-> pos + Len(read)]
         ELSE read_and_decode(bytes, pos + Len(read), size, max_window_size,
                              chunk, bytes_read + size)

\* A call that counts the bytes the read returned instead of chunk_size.
read_and_decode_call_counting_read ==
  LET read == reader_read(stream, reader_pos, chunk_size)
      chunk == window_chunk \o read
      bytes_read == window_bytes_read + Len(read)
  IN /\ UNCHANGED window_frame
     /\ wpc = "calling"
     /\ reader_pos' = reader_pos + Len(read)
     /\ window_chunk' = chunk
     /\ window_bytes_read' = bytes_read
     /\ wpc' = IF utf8_decode(chunk).ok THEN "returned"
               ELSE IF window_exceeded(bytes_read, window_max) THEN "raised"
               ELSE "calling"
     /\ UNCHANGED <<stream, chunk_size, buffer, yielded, dpc, window_max>>

\* One call of read_and_decode: reader.read, bytes_read += chunk_size, the
\* chunk joined to previous_chunk, then the decoded text is returned, or
\* UnicodeError is raised, or the call calls read_and_decode again.
read_and_decode_call ==
  LET read == reader_read(stream, reader_pos, chunk_size)
      chunk == window_chunk \o read
      bytes_read == window_bytes_read + chunk_size
  IN /\ UNCHANGED window_frame
     /\ wpc = "calling"
     /\ reader_pos' = reader_pos + Len(read)
     /\ window_chunk' = chunk
     /\ window_bytes_read' = bytes_read
     /\ wpc' = IF utf8_decode(chunk).ok THEN "returned"
               ELSE IF window_exceeded(bytes_read, window_max) THEN "raised"
               ELSE "calling"
     /\ UNCHANGED <<stream, chunk_size, buffer, yielded, dpc, window_max>>

\* read_and_decode is called with previous_chunk = None and bytes_read = 0.
WindowInit(sizes) ==
  /\ window_max \in sizes
  /\ window_chunk = <<>>
  /\ window_bytes_read = 0
  /\ wpc = "calling"

\* The bytes of the modelled streams: "a", the two bytes of U+00E9 and the
\* first byte of a three-byte character.
Bytes == {97, 195, 169, 226}

\* str.split("\n"): the pieces between the separators, at least one piece
RECURSIVE split(_, _)
split(text, piece) ==
  IF text = <<>> THEN <<piece>>
  ELSE IF Head(text) = LF THEN <<piece>> \o split(Tail(text), <<>>)
  ELSE split(Tail(text), Append(piece, Head(text)))

\* The body of read_lines_zst's while loop after read_and_decode returned
\* its chunk: break and close the reader on an empty chunk, else yield
\* lines[:-1], keep lines[-1] as the buffer and call read_and_decode anew.
read_lines_zst_loop ==
  LET chunk == utf8_decode(window_chunk).text
      lines == split(buffer \o chunk, <<>>)
  IN /\ UNCHANGED window_frame
     /\ dpc = "reading"
     /\ wpc = "returned"
     /\ IF chunk = <<>>
          THEN /\ dpc' = "closed"
               /\ UNCHANGED <<buffer, yielded, wpc, window_chunk, window_bytes_read>>
          ELSE /\ yielded' = yielded \o SubSeq(lines, 1, Len(lines) - 1)
               /\ buffer' = lines[Len(lines)]
               /\ wpc' = "calling"
               /\ window_chunk' = <<>>
               /\ window_bytes_read' = 0
               /\ UNCHANGED dpc
     /\ UNCHANGED <<stream, chunk_size, reader_pos, window_max>>

\* One turn of read_lines_zst's while loop on the decoder state st:
\* read_and_decode, leave the loop on an empty chunk, else yield lines[:-1]
\* and keep lines[-1] as the buffer.
read_lines_zst_turn(bytes, size, st) ==
  LET got == read_and_decode(bytes, st.pos, size, MaxWindowSize, <<>>, 0)
      lines == split(st.buffer \o got.text, <<>>)
  IN IF got.raised
       THEN [st EXCEPT !.pc = "raised", !.pos = got.pos]
       ELSE IF got.text = <<>>
         THEN [st EXCEPT !.pc = "closed", !.pos = got.pos]
         ELSE [pc |-> "reading",
               pos |-> got.pos,
               buffer |-> lines[Len(lines)],
               yielded |-> st.yielded \o SubSeq(lines, 1, Len(lines) - 1)]

DecoderStart == [pc |-> "reading", pos |-> 0, buffer |-> <<>>, yielded |-> <<>>]

\* read_lines_zst run to its end: the state in which the generator stops.
RECURSIVE read_lines_zst_from(_, _, _)
read_lines_zst_from(bytes, size, st) ==
  IF st.pc # "reading" THEN st
  ELSE read_lines_zst_from(bytes, size, read_lines_zst_turn(bytes, size, st))

read_lines_zst(bytes, size) == read_lines_zst_from(bytes, size, DecoderStart)

\* The generator advances by one turn of its loop.
read_lines_zst_next ==
  LET st == read_lines_zst_turn(stream, chunk_size,
              [pc |-> dpc, pos |-> reader_pos, buffer |-> buffer, yielded |-> yielded])
  IN /\ UNCHANGED decoder_frame
     /\ dpc = "reading"
     /\ dpc' = st.pc
     /\ reader_pos' = st.pos
     /\ buffer' = st.buffer
     /\ yielded' = st.yielded
     /\ UNCHANGED <<stream, chunk_size>>

RECURSIVE Texts(_)
Texts(n) ==
  IF n = 0 THEN {<<>>}
  ELSE Texts(n - 1) \cup {Append(t, ch) : t \in Texts(n - 1), ch \in Alphabet}

\* The file holds the UTF-8 encoding of some text; the generator has not run.
DecoderInit(texts, sizes) ==
  /\ stream \in {utf8_encode(t) : t \in texts}
  /\ chunk_size \in sizes
  /\ reader_pos = 0
  /\ buffer = <<>>
  /\ yielded = <<>>
  /\ dpc = "reading"

(***************************************************************************)
(* PushshiftRedditWarper.get_subreddit (pushshift_reddit_warper.py)        *)
(* A dump record is the dict of one parsed line. Its fields here:          *)
(*   subreddit   the "subreddit" value, Missing when the key is absent;    *)
(*   created_utc [kind, text]: an int, a numeric str, or absent;           *)
(*   fields_ok   id, title and author are strings, as Submission requires; *)
(*   json_ok     orjson.loads parsed the line (FALSE: it raised instead).  *)
(***************************************************************************)
Missing == "<missing>"

\* The values of created_utc in the modelled dumps.
CreatedValues ==
  {[kind |-> "int", text |-> ToString(t)] : t \in 0..(MaxCutoff + 1)}
    \cup {[kind |-> "str", text |-> "1"], [kind |-> "missing", text |-> ""]}

\* int(text) of a decimal numeral (also the value of an int created_utc)
int(text) == CHOOSE n \in 0..(MaxCutoff + 2) : ToString(n) = text

\* The dicts a dump line may parse to, but for the id.
DumpRecords ==
  {[subreddit |-> "a", created_utc |-> c, fields_ok |-> TRUE] : c \in CreatedValues}
    \cup {[subreddit |-> "a", created_utc |-> [kind |-> "int", text |-> "0"],
           fields_ok |-> FALSE],
          [subreddit |-> "b", created_utc |-> [kind |-> "int", text |-> "0"],
           fields_ok |-> TRUE],
          [subreddit |-> "b", created_utc |-> [kind |-> "missing", text |-> ""],
           fields_ok |-> FALSE],
          [subreddit |-> Missing, created_utc |-> [kind |-> "int", text |-> "1"],
           fields_ok |-> TRUE]}

\* A filter that lets a record without the "subreddit" key through.
is_foreign_unless_missing(submission, name) ==
  submission.subreddit # Missing /\ submission.subreddit # name

\* submission.get("subreddit") != subreddit_name
is_foreign(submission, name) == submission.subreddit # name

\* A comparison that also drops the records created at the cutoff itself.
is_after_or_at(created_utc, cutoff) == created_utc >= cutoff

\* created_utc > snapshot_datetime
is_after(created_utc, cutoff) == created_utc > cutoff

\* datetime.fromtimestamp(submission_created_utc, UTC) after the int() of a
\* str value, as epoch seconds; fromtimestamp(None) raises TypeError.
created_instant(submission) ==
  IF submission.created_utc.kind = "missing"
    THEN [raised |-> TRUE, at |-> 0]
    ELSE [raised |-> FALSE, at |-> int(submission.created_utc.text)]

\* One turn of the async for loop over the dump, or the return after it.
\* The exception of orjson.loads leaves the generator at the line's turn.
get_subreddit_next ==
  /\ UNCHANGED build_frame
  /\ bpc = "iterating"
  /\ UNCHANGED <<dump, build_subreddit_name, build_snapshot_datetime>>
  /\ IF consumed = Len(dump)
       THEN /\ bpc' = "returned"
            /\ UNCHANGED <<consumed, submissions_list>>
       ELSE LET submission == dump[consumed + 1]
                created == created_instant(submission)
            IN /\ consumed' = consumed + 1
               /\ IF ~submission.json_ok
                    THEN bpc' = "raised" /\ UNCHANGED submissions_list
                    ELSE IF is_foreign(submission, build_subreddit_name)
                    THEN UNCHANGED <<bpc, submissions_list>>
                    ELSE IF created.raised
                      THEN bpc' = "raised" /\ UNCHANGED submissions_list
                      ELSE IF is_after(created.at, build_snapshot_datetime)
                        THEN UNCHANGED <<bpc, submissions_list>>
                        ELSE IF ~submission.fields_ok
                          THEN bpc' = "raised" /\ UNCHANGED submissions_list
                          ELSE /\ submissions_list' =
                                    Append(submissions_list,
                                           [id |-> submission.id,
                                            created_utc |-> created.at])
                               /\ UNCHANGED bpc

RECURSIVE Dumps(_)
Dumps(n) ==
  IF n = 0 THEN {<<>>}
  ELSE Dumps(n - 1)
         \cup {Append(d, [id |-> Len(d) + 1, subreddit |-> rec.subreddit,
                          created_utc |-> rec.created_utc,
                          fields_ok |-> rec.fields_ok, json_ok |-> TRUE]) :
                 d \in Dumps(n - 1), rec \in DumpRecords}

\* get_subreddit is called on some dump; the loop has not taken a record.
BuildInit(dumps, names, cutoffs) ==
  /\ dump \in dumps
  /\ build_subreddit_name \in names
  /\ build_snapshot_datetime \in cutoffs
  /\ consumed = 0
  /\ submissions_list = <<>>
  /\ bpc = "iterating"

(***************************************************************************)
(* PushshiftDumpFetcher.fetch_subreddit_dump (pushshift_dump_fetcher.py):  *)
(* every line read_lines_zst yields goes through orjson.loads. The content *)
(* of a line is one symbol: "A" and "B" are the JSON text of two records,  *)
(* "X" (and every other content, the empty line included) is no JSON.      *)
(***************************************************************************)
LineA == 65
LineB == 66
LineX == 88

LineAlphabet == {LineA, LineB, LineX, LF}

\* orjson.loads(line): the dict of the line, or json_ok = FALSE where
\* orjson.loads raises JSONDecodeError.
orjson_loads(line) ==
  IF line = <<LineA>>
    THEN [json_ok |-> TRUE, subreddit |-> "a", fields_ok |-> TRUE,
          created_utc |-> [kind |-> "int", text |-> "0"]]
  ELSE IF line = <<LineB>>
    THEN [json_ok |-> TRUE, subreddit |-> "b", fields_ok |-> TRUE,
          created_utc |-> [kind |-> "int", text |-> "0"]]
  ELSE [json_ok |-> FALSE, subreddit |-> Missing, fields_ok |-> FALSE,
        created_utc |-> [kind |-> "missing", text |-> ""]]

\* fetch_subreddit_dump hands the next line of read_lines_zst to orjson.loads;
\* the loop of get_subreddit sees the dict, or the exception, at its next turn.
fetch_subreddit_dump_next ==
  /\ UNCHANGED <<build_frame, build_subreddit_name, build_snapshot_datetime,
                 consumed, submissions_list, bpc>>
  /\ Len(dump) < Len(yielded)
  /\ dump' = Append(dump, [id |-> Len(dump) + 1]
                            @@ orjson_loads(yielded[Len(dump) + 1]))

\* The generator of fetch_subreddit_dump is exhausted: read_lines_zst has
\* stopped and every line it yielded was handed on.
dump_exhausted == dpc = "closed" /\ Len(dump) = Len(yielded)

RECURSIVE TextsOver(_, _)
TextsOver(alphabet, n) ==
  IF n = 0 THEN {<<>>}
  ELSE TextsOver(alphabet, n - 1)
         \cup {Append(t, ch) : t \in TextsOver(alphabet, n - 1), ch \in alphabet}

(***************************************************************************)
(* SimpleSubredditSnapshot (subreddit_snapshot.py)                         *)
(* A Submission carries id, created_utc (epoch seconds), score, ups and    *)
(* downs; an Optional value is <<>> for None and <<v>> for the value v.    *)
(***************************************************************************)
\* Reddit epoch of hot_score
RedditEpoch == 1134028003

\* The creation instants of the modelled records.
Instants == {RedditEpoch, RedditEpoch + 45000}

\* The (score, ups, downs) of the modelled records.
Votes == {<<1, <<>>, <<>>>>, <<10, <<>>, <<>>>>, <<1, <<100>>, <<0>>>>}

RECURSIVE Snapshots(_)
Snapshots(n) ==
  IF n = 0 THEN {<<>>}
  ELSE Snapshots(n - 1)
         \cup {Append(l, [id |-> Len(l) + 1, created_utc |-> t, score |-> v[1],
                          ups |-> v[2], downs |-> v[3]]) :
                 l \in Snapshots(n - 1), t \in Instants, v \in Votes}

\* list.sort(key=..., reverse=...) as the order of the items' indices. The
\* sort is stable, and with reverse=True items of equal key keep their
\* original order too: item i comes after the items whose key goes first
\* and after the earlier items of equal key.
sorted_indices(keys, reverse, n) ==
  LET ahead(i) == {j \in 1..n :
                     \/ IF reverse THEN keys[j] > keys[i] ELSE keys[j] < keys[i]
                     \/ keys[j] = keys[i] /\ j < i}
  IN [r \in 1..n |-> CHOOSE i \in 1..n : Cardinality(ahead(i)) = r - 1]

\* A sort that is ascending whatever reverse says.
list_sort_ascending(items, keys, reverse) ==
  LET order == sorted_indices(keys, FALSE, Len(items))
  IN [i \in 1..Len(items) |-> items[order[i]]]

\* A sort whose reverse=True is the ascending sort read backwards, so that
\* items of equal key come out in the opposite of their original order.
list_sort_backwards(items, keys, reverse) ==
  LET n == Len(items)
      order == sorted_indices(keys, FALSE, n)
  IN [i \in 1..n |-> items[order[IF reverse THEN n + 1 - i ELSE i]]]

\* items.sort(key=..., reverse=...), keys[i] being the key of items[i]
list_sort(items, keys, reverse) ==
  LET order == sorted_indices(keys, reverse, Len(items))
  IN [i \in 1..Len(items) |-> items[order[i]]]

\* items[start_idx:end_idx] for start_idx >= 0 and end_idx None or >= 0
slice(items, start_idx, end_idx) ==
  LET stop == IF end_idx = <<>> \/ end_idx[1] > Len(items)
                THEN Len(items) ELSE end_idx[1]
  IN SubSeq(items, (IF start_idx < Len(items) THEN start_idx ELSE Len(items)) + 1,
            stop)

\* A slice whose end index is the limit itself, the skip not added.
skip_limit_end_at_limit(items, limit, skip) ==
  slice(items, skip, IF limit # <<>> THEN <<limit[1]>> ELSE <<>>)

\* start_idx = skip; end_idx = start_idx + limit if limit is not None else None
skip_limit(items, limit, skip) ==
  slice(items, skip, IF limit # <<>> THEN <<skip + limit[1]>> ELSE <<>>)

\* A range filter whose end bound is exclusive.
in_range_end_exclusive(submission, start_datetime, end_datetime) ==
  /\ ~(start_datetime # <<>> /\ submission.created_utc < start_datetime[1])
  /\ ~(end_datetime # <<>> /\ submission.created_utc >= end_datetime[1])

\* The two tests of the filter loop; a datetime is always truthy.
in_range(submission, start_datetime, end_datetime) ==
  /\ ~(start_datetime # <<>> /\ submission.created_utc < start_datetime[1])
  /\ ~(end_datetime # <<>> /\ submission.created_utc > end_datetime[1])

filtered_submissions(all, start_datetime, end_datetime) ==
  SelectSeq(all, LAMBDA x : in_range(x, start_datetime, end_datetime))

\* A sort in which mode "top" orders by creation instant as "new" does.
sorted_submissions_top_by_created(all, start_datetime, end_datetime, sort_by) ==
  LET filtered == filtered_submissions(all, start_datetime, end_datetime)
      created == [i \in 1..Len(filtered) |-> filtered[i].created_utc]
  IN IF sort_by = "old" THEN list_sort(filtered, created, FALSE)
     ELSE list_sort(filtered, created, TRUE)

\* filtered_submissions after the sort of get_submissions
sorted_submissions(all, start_datetime, end_datetime, sort_by) ==
  LET filtered == filtered_submissions(all, start_datetime, end_datetime)
      created == [i \in 1..Len(filtered) |-> filtered[i].created_utc]
      scores == [i \in 1..Len(filtered) |-> filtered[i].score]
  IN IF sort_by = "new" THEN list_sort(filtered, created, TRUE)
     ELSE IF sort_by = "old" THEN list_sort(filtered, created, FALSE)
     ELSE IF sort_by = "top" THEN list_sort(filtered, scores, TRUE)
     ELSE filtered

\* SimpleSubredditSnapshot.get_submissions as a function of its arguments
SimpleSubredditSnapshot_get_submissions(all, start_datetime, end_datetime, sort_by, limit, skip) ==
  skip_limit(sorted_submissions(all, start_datetime, end_datetime, sort_by),
             limit, skip)

\* getattr(obj, name, default)
getattr(obj, name, default) ==
  IF name \in DOMAIN obj THEN obj[name] ELSE default

\* math.log10 of 1, 10 and 100
log10(n) == CHOOSE e \in 0..2 : 10 ^ e = n

abs(n) == IF n < 0 THEN 0 - n ELSE n

max(a, b) == IF a > b THEN a ELSE b

\* round(whole + num / 45000, 7) in units of 10^-7: num / 45000 in these
\* units is num * 2000 / 9, never halfway between two integers.
round7(whole, num) ==
  whole * 10 ^ 7 + ((2 * num * 2000 + 9) \div 18)

\* hot_score of get_hot_submissions, in units of 10^-7
hot_score(submission) ==
  LET plain == getattr(submission, "score", 0)
      upvotes == getattr(submission, "upvotes", <<>>)
      downvotes == getattr(submission, "downvotes", <<>>)
      score == IF upvotes # <<>> /\ downvotes # <<>>
                 THEN upvotes[1] - downvotes[1]
                 ELSE plain
      sign == IF score > 0 THEN 1 ELSE IF score < 0 THEN -1 ELSE 0
      order == log10(max(abs(score), 1))
      seconds == getattr(submission, "created_utc", <<>>)
  IN round7(sign * order, seconds - RedditEpoch)

\* list(self.submissions) after submissions.sort(key=hot_score, reverse=True)
hot_sorted_submissions(all) ==
  list_sort(all, [i \in 1..Len(all) |-> hot_score(all[i])], TRUE)

\* SimpleSubredditSnapshot.get_hot_submissions as a function of its arguments
SimpleSubredditSnapshot_get_hot_submissions(all, limit, skip) ==
  skip_limit(hot_sorted_submissions(all), limit, skip)

NoQuery == [op |-> "", start_datetime |-> <<>>, end_datetime |-> <<>>,
            sort_by |-> "", limit |-> <<>>, skip |-> 0]

\* A call of get_submissions on the snapshot. The queries leave the snapshot
\* as it is, so one call is followed per behaviour.
get_submissions(start_datetime, end_datetime, sort_by, limit, skip) ==
  /\ UNCHANGED query_frame
  /\ query = NoQuery
  /\ query' = [op |-> "get_submissions", start_datetime |-> start_datetime,
               end_datetime |-> end_datetime, sort_by |-> sort_by,
               limit |-> limit, skip |-> skip]
  /\ answer' = SimpleSubredditSnapshot_get_submissions(
                  submissions, start_datetime, end_datetime, sort_by, limit, skip)
  /\ UNCHANGED submissions

\* A call of get_hot_submissions on the snapshot.
get_hot_submissions(limit, skip) ==
  /\ UNCHANGED query_frame
  /\ query = NoQuery
  /\ query' = [NoQuery EXCEPT !.op = "get_hot_submissions",
                              !.limit = limit, !.skip = skip]
  /\ answer' = SimpleSubredditSnapshot_get_hot_submissions(submissions, limit, skip)
  /\ UNCHANGED submissions

SortModes == {"new", "old", "top"}

\* The range bounds of the modelled queries: None or one of the instants.
StartBounds == {<<>>, <<RedditEpoch + 45000>>}
EndBounds == {<<>>, <<RedditEpoch>>, <<RedditEpoch + 45000>>}
Limits == {<<>>} \cup {<<n>> : n \in 0..2}
Skips == 0..(MaxSubmissions + 1)

QueryNext ==
  \/ /\ query = NoQuery
     /\ \E start_datetime \in StartBounds, end_datetime \in EndBounds,
           sort_by \in SortModes, limit \in Limits, skip \in Skips :
          get_submissions(start_datetime, end_datetime, sort_by, limit, skip)
  \/ /\ query = NoQuery
     /\ \E limit \in Limits, skip \in Skips : get_hot_submissions(limit, skip)

\* A snapshot is built; no query was made.
QueryInit(snapshots) ==
  /\ submissions \in snapshots
  /\ query = NoQuery
  /\ answer = <<>>

(***************************************************************************)
(* PushshiftDumpFetcher.available_subreddits (pushshift_dump_fetcher.py)   *)
(* A path is the sequence of its characters; "submissions", "comments" and *)
(* "zst" stand for their letters, none of which is "_", "." or "/".        *)
(***************************************************************************)
submissions_suffix == <<"_", "submissions", ".", "zst">>

\* str.endswith
endswith(text, suffix) ==
  /\ Len(text) >= Len(suffix)
  /\ SubSeq(text, Len(text) - Len(suffix) + 1, Len(text)) = suffix

\* The last position of ch in text, 0 when it is not there (str.rfind + 1).
rfind(text, ch) ==
  IF \E i \in 1..Len(text) : text[i] = ch
    THEN CHOOSE i \in 1..Len(text) :
           text[i] = ch /\ \A j \in (i + 1)..Len(text) : text[j] # ch
    ELSE 0

\* Path(file).name: the final component of the path
Path_name(file) == SubSeq(file, rfind(file, "/") + 1, Len(file))

\* Path(file).stem: the final component without its last suffix; a dot at
\* the start or at the end of the name begins no suffix.
Path_stem(file) ==
  LET name == Path_name(file)
      dot == rfind(name, ".")
  IN IF 1 < dot /\ dot < Len(name) THEN SubSeq(name, 1, dot - 1) ELSE name

\* text.split(sep)[0]: the text before the first separator
split_first(text, sep) ==
  IF \E i \in 1..Len(text) : text[i] = sep
    THEN SubSeq(text, 1, (CHOOSE i \in 1..Len(text) :
                            text[i] = sep /\ \A j \in 1..(i - 1) : text[j] # sep) - 1)
    ELSE text

\* The loop of available_subreddits over the first n files.
RECURSIVE fetcher_available_subreddits(_, _)
fetcher_available_subreddits(files, n) ==
  IF n = 0 THEN <<>>
  ELSE LET file == files[n].path
           rest == fetcher_available_subreddits(files, n - 1)
       IN IF endswith(file, submissions_suffix)
            THEN Append(rest, [name |-> split_first(Path_stem(file), "_"),
                               size |-> files[n].size])
            ELSE rest

\* available_subreddits runs on the file list of the torrent.
dump_available_subreddits ==
  /\ UNCHANGED list_frame
  /\ lpc = "idle"
  /\ listed' = fetcher_available_subreddits(torrent_files, Len(torrent_files))
  /\ lpc' = "returned"
  /\ UNCHANGED torrent_files

\* The subreddit names of the modelled torrents.
RECURSIVE Names(_)
Names(n) ==
  IF n = 0 THEN {<<>>}
  ELSE Names(n - 1) \cup {Append(t, ch) : t \in Names(n - 1), ch \in {"a", "_", "."}}

\* The paths of the modelled torrents: a dump of submissions or of comments,
\* in the directory subreddits_path or in none.
TorrentPaths ==
  {dir \o name \o ending :
     dir \in {<<>>, <<"d", "/">>},
     name \in Names(MaxNameLen) \ {<<>>},
     ending \in {submissions_suffix, <<"_", "comments", ".", "zst">>}}

\* The file lists of the modelled torrents: up to two files.
TorrentFileLists ==
  {<<>>} \cup {<<[path |-> p, size |-> 1]>> : p \in TorrentPaths}
         \cup {<<[path |-> p, size |-> 1], [path |-> q, size |-> 2]>> :
                 p \in TorrentPaths, q \in TorrentPaths}

\* list_files has returned; available_subreddits has not run.
ListInit(lists) ==
  /\ torrent_files \in lists
  /\ listed = <<>>
  /\ lpc = "idle"

(***************************************************************************)
(* Specifications                                                          *)
(***************************************************************************)
Init ==
  /\ FetchInit
  /\ WarperInit
  /\ DecoderInit({<<>>}, {1})
  /\ BuildInit({<<>>}, {"a"}, {0})
  /\ QueryInit({<<>>})
  /\ ListInit({<<>>})
  /\ WindowInit({MaxWindowSize})

\* The content cache under concurrent download_file calls.
Next == FetchNext

Spec == Init /\ [][Next]_vars

\* The content cache when the process may be killed with markers on disk.
\* A sleeping lock_file polls every 0.1 s, so a wake-up that stays possible
\* is taken.
KillNext == FetchNext \/ process_killed

SpecKill ==
  /\ Init
  /\ [][KillNext]_vars
  /\ \A c \in Callers : WF_vars(lock_file_wake(c)) /\ WF_vars(lock_torrent_wake(c))

\* The content cache when the task of a waiting caller may be cancelled.
CancelNext == FetchNext \/ \E c \in Callers : lock_file_cancelled(c)

SpecCancel == Init /\ [][CancelNext]_vars

\* The content cache under fair scheduling: a sleeping lock_file polls every
\* 0.1 s, so a wake-up that stays possible is taken, and every HTTP download,
\* torrent.init and torrent.download that was started ends, well or badly.
\* Nothing obliges a caller to call download_file.
FetchFairness ==
  \A c \in Callers :
    WF_vars(\/ lock_torrent_wake(c)
            \/ lock_file_wake(c)
            \/ \E http_ok \in BOOLEAN, copied \in BOOLEAN :
                 download_torrent_file_done(c, http_ok, copied)
            \/ \E found \in BOOLEAN : torrent_init_done(c, found)
            \/ \E ok \in BOOLEAN, copied \in BOOLEAN :
                 torrent_download_done(c, ok, copied))

\* A finite set of concurrent calls: every caller calls download_file once.
FairNext ==
  \/ \E c \in Callers, f \in Filenames : download_file(c, f)
  \/ \E c \in Callers : lock_torrent_wake(c)
  \/ \E c \in Callers, http_ok \in BOOLEAN, copied \in BOOLEAN :
       download_torrent_file_done(c, http_ok, copied)
  \/ \E c \in Callers : lock_file_wake(c)
  \/ \E c \in Callers, found \in BOOLEAN : torrent_init_done(c, found)
  \/ \E c \in Callers, ok \in BOOLEAN, copied \in BOOLEAN :
       torrent_download_done(c, ok, copied)

SpecFair == Init /\ [][FairNext]_vars /\ FetchFairness

\* The snapshot cache and the availability-list cache.
SpecWarper == Init /\ [][WarperNext]_vars

\* read_lines_zst over every valid stream and chunk size within the bounds.
DecoderSpecInit ==
  /\ FetchInit
  /\ WarperInit
  /\ DecoderInit(Texts(MaxTextLen), 1..MaxChunkSize)
  /\ BuildInit({<<>>}, {"a"}, {0})
  /\ QueryInit({<<>>})
  /\ ListInit({<<>>})
  /\ WindowInit({MaxWindowSize})

SpecDecoder == DecoderSpecInit /\ [][read_lines_zst_next]_vars

\* PushshiftRedditWarper.get_subreddit over every dump within the bounds.
BuildSpecInit ==
  /\ FetchInit
  /\ WarperInit
  /\ DecoderInit({<<>>}, {1})
  /\ BuildInit(Dumps(MaxDumpLen), {"a", "b"}, Cutoffs)
  /\ QueryInit({<<>>})
  /\ ListInit({<<>>})
  /\ WindowInit({MaxWindowSize})

SpecBuild == BuildSpecInit /\ [][get_subreddit_next]_vars

\* A snapshot request from the cached warper down to the lines of the dump
\* file: CachedRedditWarper.get_subreddit, PushshiftRedditWarper.get_subreddit,
\* fetch_subreddit_dump and read_lines_zst, over every dump text within the
\* bounds.
DumpSpecInit ==
  /\ FetchInit
  /\ WarperInit
  /\ DecoderInit(TextsOver(LineAlphabet, MaxTextLen), 1..2)
  /\ BuildInit({<<>>}, {"a"}, {0})
  /\ QueryInit({<<>>})
  /\ ListInit({<<>>})
  /\ WindowInit({MaxWindowSize})

DumpNext ==
  \/ get_subreddit("r1", build_subreddit_name, build_snapshot_datetime)
  \/ (req["r1"].pc = "await_inner" /\ read_lines_zst_next)
  \/ (req["r1"].pc = "await_inner" /\ fetch_subreddit_dump_next)
  \/ (/\ req["r1"].pc = "await_inner"
      /\ consumed < Len(dump) \/ dump_exhausted
      /\ get_subreddit_next)
  \/ \E store_ok \in BOOLEAN :
       /\ bpc \in {"returned", "raised"}
       /\ get_subreddit_built("r1", bpc = "returned", store_ok)

SpecDump == DumpSpecInit /\ [][DumpNext]_vars

\* The queries on every snapshot within the bounds.
QuerySpecInit ==
  /\ FetchInit
  /\ WarperInit
  /\ DecoderInit({<<>>}, {1})
  /\ BuildInit({<<>>}, {"a"}, {0})
  /\ QueryInit(Snapshots(MaxSubmissions))
  /\ ListInit({<<>>})
  /\ WindowInit({MaxWindowSize})

SpecQuery == QuerySpecInit /\ [][QueryNext]_vars

\* available_subreddits on every file list within the bounds.
ListSpecInit ==
  /\ FetchInit
  /\ WarperInit
  /\ DecoderInit({<<>>}, {1})
  /\ BuildInit({<<>>}, {"a"}, {0})
  /\ QueryInit({<<>>})
  /\ ListInit(TorrentFileLists)
  /\ WindowInit({MaxWindowSize})

SpecList == ListSpecInit /\ [][dump_available_subreddits]_vars

\* read_and_decode on every byte stream, chunk size and window within the
\* bounds, the window at least one chunk wide.
WindowSpecInit ==
  /\ FetchInit
  /\ WarperInit
  /\ stream \in TextsOver(Bytes, MaxTextLen)
  /\ chunk_size \in 1..MaxChunkSize
  /\ reader_pos = 0
  /\ buffer = <<>>
  /\ yielded = <<>>
  /\ dpc = "reading"
  /\ BuildInit({<<>>}, {"a"}, {0})
  /\ QueryInit({<<>>})
  /\ ListInit({<<>>})
  /\ WindowInit(chunk_size..(MaxChunkSize + 1))

SpecWindow == WindowSpecInit /\ [][read_and_decode_call]_vars


\* read_lines_zst with its calls of read_and_decode step by step, over every
\* byte stream, chunk size and window within the bounds. The generator is
\* iterated to its end by fetch_subreddit_dump's for loop and nothing in the
\* loop suspends, so a step that can be taken is taken.
LoopNext == read_and_decode_call \/ read_lines_zst_loop

SpecLoop == WindowSpecInit /\ [][LoopNext]_vars /\ WF_vars(LoopNext)

(***************************************************************************)
(* Properties of the content cache (specification Spec).                   *)
(***************************************************************************)

\* The caller is inside the populate section of `key`: it created the key's
\* marker in lock_file and has not yet run unlock_file.
InPopulate(c, key) ==
  \/ pc[c] = "get_torrent" /\ key = torrent_url
  \/ pc[c] \in {"torrent_init", "torrent_download"} /\ key = CacheKey(filename[c])

\* C1: when exactly two download_file calls were made for an initially
\* uncached file key and both returned a path, the remote retrieval of that
\* key ran exactly once, and callers holding a result for the same file hold
\* the same path.
C1_ExactlyOneRetrieval ==
  /\ \A k \in FileKeys :
       (started[k] = 2 /\ returned[k] = 2) => retrievals[k] = 1
  /\ \A c1, c2 \in Callers :
       (pc[c1] = "done" /\ pc[c2] = "done" /\ filename[c1] = filename[c2])
         => result[c1] = result[c2]

C3_HitReturnsCachedPath ==
  [][ /\ \A c \in Callers :
           (pc[c] = "idle" /\ pc'[c] # "idle"
              /\ CacheKey(filename'[c]) \in metadata_cache)
             => /\ pc'[c] = "done"
                /\ result'[c] = get_cache_path(CacheKey(filename'[c]))
                /\ retrievals' = retrievals
                /\ lock_files' = lock_files
      /\ \A c \in Callers :
           pc'[c] = "done" => CacheKey(filename'[c]) \in metadata_cache'
      /\ \A k \in Keys : k \in metadata_cache => k \in metadata_cache'
    ]_vars

\* C3 witness: a second call for a file returned from the cache after an
\* earlier call had fetched it.
C3_Witness ==
  \E c \in Callers :
    /\ pc[c] = "done"
    /\ cache_hit[c]
    /\ returned[CacheKey(filename[c])] >= 2
    /\ retrievals[CacheKey(filename[c])] = 1

\* C16: a key FileCache.get reports present has its content file, in every
\* state, the states after a FileCache.set that raised in its copy included.
C16_PresentEntryHasContent ==
  \A key \in Keys :
    FileCache_get(key) # None => FileCache_get(key) \in content_files

\* The key whose retrieval the caller is waiting for.
RetrievedKey(c) ==
  IF pc[c] = "get_torrent" THEN torrent_url ELSE CacheKey(filename[c])

\* The step in which a remote retrieval of caller c fails.
RetrievalFails(c) ==
  pc[c] # "raised" /\ pc'[c] = "raised" /\ failure'[c] = "retrieval"

\* C17: when the remote retrieval of a call fails, the call raises in the
\* same step with no further retrieval started, the key's lock marker is
\* gone, and no entry appeared in the cache: the key is as absent as before,
\* so that the next fetch of it misses and retrieves again.
C17_RetrievalFailurePropagates ==
  [][\A c \in Callers :
       RetrievalFails(c) =>
         /\ result'[c] = None
         /\ retrievals' = retrievals
         /\ ~is_locked(RetrievedKey(c), lock_files')
         /\ metadata_cache' = metadata_cache
         /\ content_files' = content_files]_vars

\* C17 witness: a call raised from a failed retrieval of a file that is still
\* absent, and a later call for the same file is retrieving it again.
C17_Witness ==
  \E c1, c2 \in Callers :
    /\ pc[c1] = "raised" /\ failure[c1] = "retrieval"
    /\ filename[c2] = filename[c1]
    /\ FileCache_get(CacheKey(filename[c1])) = None
    /\ pc[c2] = "torrent_download"
    /\ retrievals[CacheKey(filename[c1])] = 2

\* The space the content directory occupies, every content file counted as
\* one unit.
OccupiedSpace(files) == Cardinality(files)

\* A size limit that holds some content files but not one file per key.
ContentSizeLimits == 1 .. (Cardinality(Keys) - 1)

\* C21: whenever no population is in progress (no lock marker exists), the
\* content files occupy no more than the size limit, whichever limit smaller
\* than the whole set of keys is configured; a content file whose key is
\* locked is never removed.
C21_ContentWithinSizeLimit ==
  \A size_limit \in ContentSizeLimits :
    lock_files = {} => OccupiedSpace(content_files) <= size_limit

\* Caller c is inside the populate section of a file key other than that of
\* file f: it holds that key's marker and runs torrent.init or
\* torrent.download.
PopulatesOtherFile(c, f) ==
  pc[c] \in {"torrent_init", "torrent_download"} /\ filename[c] # f

\* C23: a fetch of a file key is not held up by the population of another
\* file key. While a caller populates file key B the torrent file is in the
\* cache; a download_file of an absent key A no caller populates that starts
\* then creates A's marker and reaches torrent.init in that same step, B's
\* marker and B's populator staying as they are; and a caller that sleeps in
\* lock_file for A can wake as soon as no caller populates A, whoever
\* populates B.
C23_OtherKeyDoesNotBlock ==
  /\ [](\A c \in Callers :
          pc[c] \in {"torrent_init", "torrent_download"}
            => FileCache_get(torrent_url) # None)
  /\ [][\A c1, c2 \in Callers :
          (/\ c1 # c2
           /\ pc[c2] = "idle" /\ pc'[c2] # "idle"
           /\ PopulatesOtherFile(c1, filename'[c2])
           /\ FileCache_get(CacheKey(filename'[c2])) = None
           /\ \A c3 \in Callers : ~InPopulate(c3, CacheKey(filename'[c2])))
            => /\ pc'[c2] = "torrent_init"
               /\ is_locked(CacheKey(filename'[c2]), lock_files')
               /\ is_locked(CacheKey(filename[c1]), lock_files')
               /\ pc'[c1] = pc[c1]]_vars
  /\ [](\A c1, c2 \in Callers :
          (/\ c1 # c2
           /\ PopulatesOtherFile(c1, filename[c2])
           /\ pc[c2] = "lock_file"
           /\ \A c3 \in Callers : ~InPopulate(c3, CacheKey(filename[c2])))
            => ENABLED lock_file_wake(c2))
  /\ [](\A c1, c2 \in Callers :
          (c1 # c2 /\ PopulatesOtherFile(c1, filename[c2])
             /\ pc[c2] = "torrent_init")
            => ENABLED torrent_init_done(c2, TRUE))

\* C23 witness: two callers retrieve two different files at the same time,
\* each holding the marker of its own key.
C23_Witness ==
  \E c1, c2 \in Callers :
    /\ pc[c1] = "torrent_download" /\ pc[c2] = "torrent_download"
    /\ filename[c1] # filename[c2]
    /\ is_locked(CacheKey(filename[c1]), lock_files)
    /\ is_locked(CacheKey(filename[c2]), lock_files)

\* The key whose marker caller c waits for in lock_file.
AwaitedKey(c) ==
  IF pc[c] = "lock_torrent" THEN torrent_url ELSE CacheKey(filename[c])

Waits(c) == pc[c] \in {"lock_torrent", "lock_file"}

\* C26: every marker that exists belongs to a caller inside that key's
\* populate section and no other marker file exists, so the markers are as
\* many as the populating callers and a caller holds one marker at most: the
\* torrent key's marker is gone when download_file asks for the file key's.
\* A caller that waits for a marker holds none, so the holder of an awaited
\* marker never waits itself and no cycle of waits exists.
C26_OneMarkerPerCaller ==
  /\ lock_files \subseteq {get_lock_path(k) : k \in Keys}
  /\ \A k \in Keys : is_locked(k, lock_files) => \E c \in Callers : InPopulate(c, k)
  /\ Cardinality(lock_files)
       = Cardinality({c \in Callers : \E k \in Keys : InPopulate(c, k)})
  /\ \A c \in Callers :
       (Waits(c) /\ is_locked(AwaitedKey(c), lock_files))
         => \E c2 \in Callers : InPopulate(c2, AwaitedKey(c)) /\ ~Waits(c2)

\* C26 witness: a caller that downloaded the torrent file itself holds a
\* file key's marker while another caller holds the torrent key's marker and
\* a marker is awaited.
C26_Witness ==
  \E c1, c2 \in Callers :
    /\ pc[c1] \in {"torrent_init", "torrent_download"}
    /\ ~cache_hit[c1]
    /\ pc[c2] = "get_torrent"
    /\ retrievals[torrent_url] = 2
    /\ Cardinality(lock_files) = 2

(***************************************************************************)
(* Properties of the content cache when the process may be killed          *)
(* (specification SpecKill).                                               *)
(***************************************************************************)

\* The marker of the key exists and no caller is inside the key's populate
\* section: the populator that created it is gone.
Orphaned(k) ==
  is_locked(k, lock_files) /\ \A c \in Callers : ~InPopulate(c, k)

\* The key whose marker a download_file of file f asks for first.
FirstLockedKey(f) ==
  IF FileCache_get(torrent_url) # None THEN CacheKey(f) ELSE torrent_url

\* C24: a caller that waits in lock_file while the awaited marker exists
\* does not return, raise or go on to a retrieval in that step; a
\* download_file that misses while the marker it asks for exists goes to
\* wait; and no step removes an orphaned marker or lets a caller that waits
\* for it leave lock_file, so that caller waits for ever, however fairly
\* its wake-ups are scheduled.
C24_WaitingNeverTimesOut ==
  /\ [][\A c \in Callers :
          (Waits(c) /\ is_locked(AwaitedKey(c), lock_files))
            => pc'[c] \notin {"done", "raised", "get_torrent", "torrent_init",
                              "torrent_download"}]_vars
  /\ [][\A c \in Callers :
          (/\ pc[c] = "idle" /\ pc'[c] # "idle"
           /\ FileCache_get(CacheKey(filename'[c])) = None
           /\ is_locked(FirstLockedKey(filename'[c]), lock_files))
            => /\ pc'[c] \in {"lock_torrent", "lock_file"}
               /\ retrievals' = retrievals]_vars
  /\ [][\A k \in Keys : Orphaned(k) => Orphaned(k)']_vars
  /\ [][\A c \in Callers :
          (Waits(c) /\ Orphaned(AwaitedKey(c)))
            => (Waits(c) /\ Orphaned(AwaitedKey(c)))']_vars

\* C24 witness: after the process was killed during a download a caller
\* waits for the orphaned marker of an absent file key, no caller running.
C24_Witness ==
  \E c \in Callers :
    /\ pc[c] = "lock_file"
    /\ Orphaned(CacheKey(filename[c]))
    /\ FileCache_get(CacheKey(filename[c])) = None
    /\ \A c2 \in Callers : c2 # c => pc[c2] = "idle"

(***************************************************************************)
(* Properties of the content cache when a waiting caller may be cancelled  *)
(* (specification SpecCancel).                                             *)
(***************************************************************************)

\* The step in which caller c leaves lock_file by an exception, its
\* acquisition not completed.
AcquisitionFails(c) == Waits(c) /\ pc'[c] = "raised"

\* C25: the marker of a key exists as long as a caller is inside the key's
\* populate section, and a caller that leaves lock_file by an exception
\* removes no marker: the marker another caller holds is still there when
\* its lock_context has exited.
C25_MarkerRemovedOnlyByCreator ==
  /\ [](\A k \in Keys :
          (\E c \in Callers : InPopulate(c, k)) => is_locked(k, lock_files))
  /\ [][\A c \in Callers : AcquisitionFails(c) => lock_files' = lock_files]_vars

(***************************************************************************)
(* Properties of the content cache under fair scheduling (specification    *)
(* SpecFair).                                                              *)
(***************************************************************************)

\* The call of caller c has ended: it returned a path or raised.
Finished(c) == pc[c] \in {"done", "raised"}

\* C27: every download_file call that was started ends, returning the path
\* of its cached key or raising, so no caller waits for a marker for ever;
\* and when no call is in progress no marker exists.
C27_EveryCallEnds ==
  /\ \A c \in Callers : (pc[c] # "idle") ~> Finished(c)
  /\ [](\A c \in Callers :
          pc[c] = "done" =>
            /\ result[c] = get_cache_path(CacheKey(filename[c]))
            /\ FileCache_get(CacheKey(filename[c])) = result[c])
  /\ []((\A c \in Callers : pc[c] = "idle" \/ Finished(c)) => lock_files = {})

\* C27 witness: a call that had to wait for the marker of its file key
\* returned the cached path after its own retrieval, and no marker is left.
C27_Witness ==
  \E c \in Callers :
    /\ pc[c] = "done" /\ ~cache_hit[c]
    /\ retrievals[CacheKey(filename[c])] = 2
    /\ returned[CacheKey(filename[c])] = 2
    /\ \A c2 \in Callers : pc[c2] = "idle" \/ Finished(c2)
    /\ lock_files = {}

(***************************************************************************)
(* Properties of the snapshot cache (specification SpecWarper).            *)
(***************************************************************************)

\* The cache key of the call request r is serving.
RequestKey(r) == make_cache_key(req[r].subreddit_name, req[r].snapshot_datetime)

\* In this step request r begins a get_subreddit.
BeginsGet(r) ==
  req[r].pc = "idle" /\ req'[r].pc # "idle" /\ req'[r].op = "get_subreddit"

\* The key of the get_subreddit request r begins in this step.
BegunKey(r) == make_cache_key(req'[r].subreddit_name, req'[r].snapshot_datetime)

\* C4: a get_subreddit that finds an entry that fails to unpickle removes the
\* entry and calls the inner warper; when the inner warper returns, its
\* snapshot for (subreddit_name, snapshot_datetime) is returned and stored
\* (unless the store itself raised), and the only exception that can reach
\* the caller is the inner warper's.
C4_CorruptEntryRebuilt ==
  [][ \A r \in Requests :
        /\ ( /\ BeginsGet(r)
             /\ BegunKey(r) \in DOMAIN subreddit_cache
             /\ ~subreddit_cache[BegunKey(r)].loadable )
             => /\ req'[r].pc = "await_inner"
                /\ BegunKey(r) \notin DOMAIN subreddit_cache'
        /\ ( /\ req[r].pc = "await_inner"
             /\ req[r].op = "get_subreddit"
             /\ req[r].corrupt
             /\ req'[r].pc # "await_inner" )
             => \/ req'[r].pc = "raised" /\ req'[r].error = "inner"
                \/ /\ req'[r].pc = "returned"
                   /\ req'[r].snapshot =
                        Snapshot(req[r].subreddit_name, req[r].snapshot_datetime)
                   /\ req'[r].stored =>
                        cache_get(subreddit_cache', RequestKey(r)) =
                          <<pickle_dumps(req'[r].snapshot, <<>>)>>
    ]_vars

\* C4 witness: a get_subreddit that met a corrupted entry has returned the
\* rebuilt snapshot and stored it.
C4_Witness ==
  \E r \in Requests :
    /\ req[r].op = "get_subreddit"
    /\ req[r].pc = "returned"
    /\ req[r].corrupt
    /\ req[r].built
    /\ req[r].stored

\* C5: an available_subreddits call that finds a list entry that fails to
\* unpickle does not raise the unpickling error: it goes on to the inner
\* warper, and only the inner warper's exception can reach the caller.
C5_ListSelfHeals ==
  \A r \in Requests :
    req[r].op = "available_subreddits"
      => /\ req[r].error # "unpickle"
         /\ req[r].pc = "raised" => req[r].error = "inner"

\* C6: a returned snapshot is the builder's snapshot for exactly the requested
\* (subreddit_name, snapshot_datetime); every loadable entry is stored under
\* the key of the pair it was built for; the inner warper is called only when
\* no loadable entry is stored under the pair's key, and on a hit the stored
\* snapshot is returned.
C6_State ==
  /\ \A r \in Requests :
       (req[r].op = "get_subreddit" /\ req[r].pc = "returned")
         => req[r].snapshot = Snapshot(req[r].subreddit_name, req[r].snapshot_datetime)
  /\ \A k \in DOMAIN subreddit_cache :
       subreddit_cache[k].loadable
         => k = make_cache_key(subreddit_cache[k].snapshot.subreddit_name,
                               subreddit_cache[k].snapshot.snapshot_datetime)

C6_Step ==
  \A r \in Requests :
    BeginsGet(r) =>
      LET hit == /\ BegunKey(r) \in DOMAIN subreddit_cache
                 /\ subreddit_cache[BegunKey(r)].loadable
      IN /\ req'[r].pc = "await_inner" => ~hit
         /\ hit => /\ req'[r].pc = "returned"
                   /\ req'[r].snapshot = subreddit_cache[BegunKey(r)].snapshot
                   /\ ~req'[r].built

\* C6, as one formula: C6_State holds before and after every step and every
\* step that begins a get_subreddit satisfies C6_Step.
C6_SnapshotForRequestedPair == [][C6_State /\ C6_Step /\ C6_State']_vars

\* C6 witness: with snapshots of two instants of one subreddit stored, a
\* get_subreddit has returned a stored snapshot without calling the builder.
C6_Witness ==
  \E r \in Requests :
    /\ req[r].op = "get_subreddit"
    /\ req[r].pc = "returned"
    /\ ~req[r].built
    /\ \E t \in Cutoffs :
         /\ t # req[r].snapshot_datetime
         /\ make_cache_key(req[r].subreddit_name, t) \in DOMAIN subreddit_cache

\* C19: when the snapshot was built but the pickling or the store of it
\* raised, get_subreddit returns the built snapshot and raises nothing, and
\* the snapshot cache is as it was before the store.
C19_StoreFailureStillReturns ==
  [][\A r \in Requests :
       (/\ req[r].pc = "await_inner" /\ req[r].op = "get_subreddit"
        /\ req'[r].built /\ ~req'[r].stored)
         => /\ req'[r].pc = "returned"
            /\ req'[r].error = ""
            /\ req'[r].snapshot = Snapshot(req[r].subreddit_name,
                                           req[r].snapshot_datetime)
            /\ subreddit_cache' = subreddit_cache]_vars

\* C19 witness: a call that found a corrupt entry built the snapshot, failed
\* to store it and returned it; the key has no entry.
C19_Witness ==
  \E r \in Requests :
    /\ req[r].pc = "returned" /\ req[r].op = "get_subreddit"
    /\ req[r].corrupt /\ req[r].built /\ ~req[r].stored
    /\ req[r].snapshot = Snapshot(req[r].subreddit_name, req[r].snapshot_datetime)
    /\ RequestKey(r) \notin DOMAIN subreddit_cache

(***************************************************************************)
(* Properties of the line decoder (specification SpecDecoder).             *)
(***************************************************************************)

\* The text the stream encodes.
StreamText == utf8_decode(stream).text

\* C7: when the text of the stream ends with a non-empty line that has no
\* line separator after it, that line is the last line read_lines_zst yields.
C7_FinalLineYielded ==
  (dpc = "closed" /\ StreamText # <<>> /\ StreamText[Len(StreamText)] # LF)
    => /\ yielded # <<>>
       /\ yielded[Len(yielded)] =
            split(StreamText, <<>>)[Len(split(StreamText, <<>>))]

\* C8: on a valid UTF-8 stream read_lines_zst never raises, and with any
\* chunk size it yields the lines it yields when the whole stream comes in
\* one chunk.
C8_ChunkingInvariant ==
  /\ dpc # "raised"
  /\ dpc = "closed" =>
       LET whole == read_lines_zst(stream, IF Len(stream) = 0 THEN 1 ELSE Len(stream))
       IN /\ whole.pc = "closed"
          /\ yielded = whole.yielded

\* C8 witness: a stream with a three-byte character cut by two chunk
\* boundaries (chunk size 1) was read to its end and lines were yielded.
C8_Witness ==
  /\ dpc = "closed"
  /\ chunk_size = 1
  /\ \E i \in 1..Len(stream) : stream[i] >= 224
  /\ Len(yielded) >= 2

(***************************************************************************)
(* Properties of the snapshot builder (specification SpecBuild).           *)
(***************************************************************************)

\* The record of the dump carries the requested name and was created at or
\* before the cutoff.
InSnapshotRange(rec) ==
  /\ rec.subreddit = build_subreddit_name
  /\ rec.created_utc.kind # "missing"
  /\ int(rec.created_utc.text) <= build_snapshot_datetime

\* C9: the snapshot get_subreddit returns holds exactly the records of the
\* dump that carry the requested name and were created at or before the
\* cutoff (the cutoff instant included), in the order of the dump.
C9_SnapshotContents ==
  bpc = "returned" =>
    LET expected == SelectSeq(dump, InSnapshotRange)
    IN /\ Len(submissions_list) = Len(expected)
       /\ \A i \in 1..Len(expected) :
            /\ submissions_list[i].id = expected[i].id
            /\ submissions_list[i].created_utc = int(expected[i].created_utc.text)

\* C9 witness: a returned snapshot that kept a record created at the cutoff
\* and left out a later record of the same subreddit.
C9_Witness ==
  /\ bpc = "returned"
  /\ \E i \in 1..Len(submissions_list) :
       submissions_list[i].created_utc = build_snapshot_datetime
  /\ \E j \in 1..Len(dump) :
       /\ dump[j].subreddit = build_subreddit_name
       /\ dump[j].created_utc.kind = "int"
       /\ int(dump[j].created_utc.text) > build_snapshot_datetime
  /\ Len(submissions_list) >= 2

\* C10: a record whose "subreddit" value differs from the requested name, or
\* is absent, never makes get_subreddit raise and never enters the snapshot:
\* every Submission of the list comes from a record with the requested name.
C10_ForeignRecordsSkipped ==
  /\ \A i \in 1..Len(submissions_list) :
       dump[submissions_list[i].id].subreddit = build_subreddit_name
  /\ bpc = "raised" => dump[consumed].subreddit = build_subreddit_name

\* C10 witness: a snapshot was returned from a dump that held a record of
\* another subreddit with unusable fields and a record without the key.
C10_Witness ==
  /\ bpc = "returned"
  /\ submissions_list # <<>>
  /\ \E i \in 1..Len(dump) : dump[i].subreddit = Missing
  /\ \E i \in 1..Len(dump) :
       /\ dump[i].subreddit \notin {Missing, build_subreddit_name}
       /\ dump[i].created_utc.kind = "missing"

(***************************************************************************)
(* Properties of a snapshot request over a dump file (specification        *)
(* SpecDump).                                                              *)
(***************************************************************************)

\* The lines of the dump file: the pieces between the separators, the text
\* after the last separator included when it is not empty.
FileLines(text) ==
  LET pieces == split(text, <<>>)
  IN IF pieces[Len(pieces)] = <<>>
       THEN SubSeq(pieces, 1, Len(pieces) - 1)
       ELSE pieces

HasUnparsableLine ==
  \E i \in 1..Len(FileLines(StreamText)) :
    ~orjson_loads(FileLines(StreamText)[i]).json_ok

\* C11: when some line of the dump file is not parseable, the request ends
\* in an error: the builder returns no snapshot, the cached warper returns
\* none, and no entry is stored for the (subreddit, cutoff) pair.
C11_MalformedLineAborts ==
  HasUnparsableLine =>
    /\ bpc # "returned"
    /\ req["r1"].pc # "returned"
    /\ make_cache_key(build_subreddit_name, build_snapshot_datetime)
         \notin DOMAIN subreddit_cache

\* The part of C11 that holds: a line that reaches orjson.loads and is not
\* parseable ends the request in an error, with nothing returned or stored.
C11_ParsedLineAborts ==
  (\E i \in 1..Len(dump) : ~dump[i].json_ok) =>
    /\ bpc # "returned"
    /\ req["r1"].pc # "returned"
    /\ make_cache_key(build_subreddit_name, build_snapshot_datetime)
         \notin DOMAIN subreddit_cache

(***************************************************************************)
(* Properties of the snapshot queries (specification SpecQuery).           *)
(***************************************************************************)

\* The last query was get_submissions with skip = 0 and no limit.
WholeRangeQuery ==
  query.op = "get_submissions" /\ query.skip = 0 /\ query.limit = <<>>

\* start <= created <= end for the bounds of the last query, a bound that
\* is None being no bound.
WithinBounds(rec) ==
  /\ query.start_datetime = <<>> \/ query.start_datetime[1] <= rec.created_utc
  /\ query.end_datetime = <<>> \/ rec.created_utc <= query.end_datetime[1]

Occurrences(rec, list) == Cardinality({j \in 1..Len(list) : list[j] = rec})

\* C12: get_submissions with skip = 0 and no limit returns, in every sort
\* mode, each snapshot record with start <= created <= end exactly once and
\* no other record.
C12_RangeFilter ==
  WholeRangeQuery =>
    /\ \A i \in 1..Len(submissions) :
         Occurrences(submissions[i], answer)
           = IF WithinBounds(submissions[i]) THEN 1 ELSE 0
    /\ \A j \in 1..Len(answer) : Occurrences(answer[j], submissions) = 1

\* C12 witness: a query with both bounds returned a record created exactly
\* at the bounds and left a record outside them out.
C12_Witness ==
  /\ WholeRangeQuery
  /\ query.start_datetime # <<>> /\ query.end_datetime # <<>>
  /\ \E j \in 1..Len(answer) :
       /\ answer[j].created_utc = query.start_datetime[1]
       /\ answer[j].created_utc = query.end_datetime[1]
  /\ Len(answer) < Len(submissions)

Reverse(list) == [i \in 1..Len(list) |-> list[Len(list) + 1 - i]]

\* The list the last query's filter returns in sort mode "old".
OldList ==
  SimpleSubredditSnapshot_get_submissions(
    submissions, query.start_datetime, query.end_datetime, "old", <<>>, 0)

CreatedOf(list) == [i \in 1..Len(list) |-> list[i].created_utc]

\* C13 as stated: the list of sort mode "new" is the reverse of the list of
\* sort mode "old" for the same filter, records of equal creation instant
\* included.
C13_NewIsReverseOfOld ==
  (WholeRangeQuery /\ query.sort_by = "new") => answer = Reverse(OldList)

\* C13 amended: the "new" list holds the records of the "old" list, its
\* creation instants are those of the "old" list reversed, records of equal
\* creation instant are in snapshot order, and the list is the reverse of
\* the "old" list when no two of its records share a creation instant.
C13_NewReversesOldInstants ==
  (WholeRangeQuery /\ query.sort_by = "new") =>
    /\ \A j \in 1..Len(OldList) : Occurrences(OldList[j], answer) = 1
    /\ CreatedOf(answer) = Reverse(CreatedOf(OldList))
    /\ \A i, j \in 1..Len(answer) :
         (i < j /\ answer[i].created_utc = answer[j].created_utc)
           => answer[i].id < answer[j].id
    /\ (\A i, j \in 1..Len(answer) :
          i # j => answer[i].created_utc # answer[j].created_utc)
         => answer = Reverse(OldList)

\* C13 witness: a "new" list of three records, two of them of the same
\* creation instant.
C13_Witness ==
  /\ WholeRangeQuery /\ query.sort_by = "new"
  /\ Len(answer) = 3
  /\ answer[1].created_utc > answer[2].created_utc
  /\ answer[2].created_utc = answer[3].created_utc

\* The filtered and sorted sequence the last query slices.
FullSequence ==
  IF query.op = "get_submissions"
    THEN sorted_submissions(submissions, query.start_datetime,
                            query.end_datetime, query.sort_by)
    ELSE hot_sorted_submissions(submissions)

\* C14: with skip k and limit n a query returns the elements at positions
\* [k, min(k + n, L)) of the filtered and sorted sequence of length L, all
\* the elements from position k on without a limit, none when k >= L.
C14_SkipLimitWindow ==
  query.op # "" =>
    LET k == query.skip
        L == Len(FullSequence)
        stop == IF query.limit = <<>> \/ k + query.limit[1] > L
                  THEN L ELSE k + query.limit[1]
    IN /\ Len(answer) = IF stop > k THEN stop - k ELSE 0
       /\ \A i \in 1..Len(answer) : answer[i] = FullSequence[k + i]

\* C14 witness: a window that begins after the first element and ends
\* before the last.
C14_Witness ==
  /\ query.op = "get_hot_submissions"
  /\ query.skip = 1 /\ query.limit = <<1>>
  /\ Len(submissions) = 3
  /\ Len(answer) = 1
  /\ answer[1] # submissions[1]

\* upvotes - downvotes of a record whose two counts are known, else its score
EffectiveScore(rec) ==
  IF rec.ups # <<>> /\ rec.downs # <<>> THEN rec.ups[1] - rec.downs[1]
  ELSE rec.score

\* The hot score of the effective score, in units of 10^-7.
EffectiveHotScore(rec) ==
  LET score == EffectiveScore(rec)
      sign == IF score > 0 THEN 1 ELSE IF score < 0 THEN -1 ELSE 0
  IN round7(sign * log10(max(abs(score), 1)), rec.created_utc - RedditEpoch)

\* C15: get_hot_submissions ranks by the hot score of upvotes - downvotes
\* for the records whose two counts are known: a record never comes after
\* one of smaller hot score.
C15_HotUsesEffectiveScore ==
  (query.op = "get_hot_submissions" /\ query.skip = 0 /\ query.limit = <<>>) =>
    \A i, j \in 1..Len(answer) :
      i < j => EffectiveHotScore(answer[i]) >= EffectiveHotScore(answer[j])

\* C22: the list get_submissions returns is ordered by its sort mode,
\* whatever the snapshot, the range, the skip and the limit: creation
\* instants never increase in mode "new" and never decrease in mode "old",
\* scores never increase in mode "top".
C22_OrderedBySortMode ==
  query.op = "get_submissions" =>
    \A i, j \in 1..Len(answer) :
      i < j =>
        /\ query.sort_by = "new" => answer[i].created_utc >= answer[j].created_utc
        /\ query.sort_by = "old" => answer[i].created_utc <= answer[j].created_utc
        /\ query.sort_by = "top" => answer[i].score >= answer[j].score

\* C22 witness: a "top" list of three records in which a record of higher
\* score and earlier creation instant precedes records the snapshot holds
\* before it.
C22_Witness ==
  /\ query.op = "get_submissions" /\ query.sort_by = "top"
  /\ Len(answer) = 3
  /\ answer[1].score > answer[2].score
  /\ answer[1].created_utc < answer[2].created_utc
  /\ answer[1].id > answer[2].id

\* The sort key of a record in the last query.
SortKey(rec) ==
  IF query.op = "get_hot_submissions" THEN hot_score(rec)
  ELSE IF query.sort_by = "top" THEN rec.score
  ELSE rec.created_utc

\* C28: in the list of get_submissions (modes new, old, top) and of
\* get_hot_submissions, records of equal sort key are in the order in which
\* the snapshot holds them, in the descending modes as in the ascending one,
\* so that the snapshot and the query arguments leave one list possible.
C28_TiesKeepSnapshotOrder ==
  query.op # "" =>
    \A i, j \in 1..Len(answer) :
      (i < j /\ SortKey(answer[i]) = SortKey(answer[j]))
        => answer[i].id < answer[j].id

\* C28 witness: a hot list that begins with a record the snapshot holds last,
\* followed by two records of equal hot score.
C28_Witness ==
  /\ query.op = "get_hot_submissions"
  /\ Len(answer) = 3
  /\ answer[1].id = 3
  /\ hot_score(answer[1]) > hot_score(answer[2])
  /\ hot_score(answer[2]) = hot_score(answer[3])

(***************************************************************************)
(* Properties of the enumeration (specification SpecList).                 *)
(***************************************************************************)

\* The files of the torrent named <name>_submissions.zst, in list order.
SubmissionFiles ==
  SelectSeq(torrent_files, LAMBDA f : endswith(f.path, submissions_suffix))

\* The <name> of a file named <name>_submissions.zst.
NameOf(file) ==
  SubSeq(Path_name(file), 1, Len(Path_name(file)) - Len(submissions_suffix))

\* C18: available_subreddits reports, for each file named
\* <name>_submissions.zst and for no other file, exactly <name>, whatever
\* characters the name holds.
C18_NamesStripSuffix ==
  lpc = "returned" =>
    /\ Len(listed) = Len(SubmissionFiles)
    /\ \A i \in 1..Len(listed) :
         /\ listed[i].name = NameOf(SubmissionFiles[i].path)
         /\ listed[i].size = SubmissionFiles[i].size

\* The part of C18 that holds: only the files with the suffix are reported,
\* and a name without an underscore is reported as it is.
C18_NamesWithoutUnderscore ==
  lpc = "returned" =>
    /\ Len(listed) = Len(SubmissionFiles)
    /\ \A i \in 1..Len(listed) :
         (\A j \in 1..Len(NameOf(SubmissionFiles[i].path)) :
            NameOf(SubmissionFiles[i].path)[j] # "_")
           => listed[i].name = NameOf(SubmissionFiles[i].path)

(***************************************************************************)
(* Properties of read_and_decode (specification SpecWindow).               *)
(***************************************************************************)

\* The calls of read_and_decode end as the function does.
ReadAndDecodeAgrees ==
  LET got == read_and_decode(stream, 0, chunk_size, window_max, <<>>, 0)
  IN wpc # "calling" =>
       /\ got.raised = (wpc = "raised")
       /\ got.pos = reader_pos
       /\ ~got.raised => got.text = utf8_decode(window_chunk).text

\* C20 as stated: the bytes accumulated without a successful decode never
\* exceed max_window_size, and no chunk is read once they have reached it.
C20_WindowNeverExceeded ==
  /\ Len(window_chunk) <= window_max
  /\ wpc = "calling" => Len(window_chunk) < window_max

\* C20 amended: the accumulated bytes never exceed max_window_size plus one
\* chunk_size; a call reads a chunk only while the bytes asked for so far
\* (chunk_size per read, whatever the read returned) are at most
\* max_window_size, and UnicodeError is raised at the first failed decode
\* with more than max_window_size bytes asked for.
C20_WindowPlusOneChunk ==
  /\ Len(window_chunk) <= window_bytes_read
  /\ window_bytes_read <= window_max + chunk_size
  /\ wpc = "calling" => window_bytes_read <= window_max
  /\ wpc = "raised" =>
       /\ window_bytes_read > window_max
       /\ ~utf8_decode(window_chunk).ok
  /\ wpc = "returned" => utf8_decode(window_chunk).ok

\* C20 witness: UnicodeError was raised with more bytes accumulated than the
\* window, and a chunk was read although the window was already full.
C20_Witness ==
  /\ wpc = "raised"
  /\ Len(window_chunk) > window_max
  /\ Len(window_chunk) - chunk_size >= window_max

\* The generator has stopped: it left its loop, or UnicodeError came out of
\* read_and_decode.
DecoderStopped == dpc = "closed" \/ wpc = "raised"

\* The stream is valid text followed by the beginning of a multi-byte
\* character that the end of the stream cuts off.
EndsInsideCharacter ==
  \E k \in 1..Len(stream) :
    LET tail == SubSeq(stream, k, Len(stream))
    IN /\ utf8_decode(SubSeq(stream, 1, k - 1)).ok
       /\ ~utf8_decode(tail).ok
       /\ \E rest \in {<<169>>, <<169, 169>>} : utf8_decode(tail \o rest).ok

\* C29: on every finite stream read_lines_zst stops. It leaves its loop only
\* after a read at the end of the stream returned no data; on a stream that
\* ends inside a multi-byte character it stops with UnicodeError; and one
\* read_and_decode makes at most max_window_size / chunk_size + 1 reads.
C29_DecoderTerminates ==
  /\ <>DecoderStopped
  /\ EndsInsideCharacter => <>(wpc = "raised")
  /\ [](dpc = "closed" => (reader_pos = Len(stream) /\ window_chunk = <<>>))
  /\ [](window_bytes_read <= (window_max \div chunk_size + 1) * chunk_size)

\* C29 witness: UnicodeError was raised at the end of a stream whose valid
\* beginning was decoded, the last reads having returned no data.
C29_Witness ==
  /\ wpc = "raised"
  /\ EndsInsideCharacter
  /\ reader_pos = Len(stream)
  /\ Len(stream) >= 2
  /\ Len(window_chunk) + chunk_size < window_bytes_read

====
